---- MODULE Spec2Model ----
(***************************************************************************)
(* Model of QCMPatternService (src/services/QCMPatternService.ts): the     *)
(* five notation patterns, String.prototype.matchAll over them, the        *)
(* expansion / de-duplication loop and the final sort of                   *)
(* extractQCMAnswers, together with containsQCMAnswers and                 *)
(* getQCMAnswerCount.                                                      *)
(*                                                                         *)
(* A text is a sequence of one-character strings.  Positions are 1-based;  *)
(* a match is described by half-open position ranges [from, to).           *)
(***************************************************************************)
EXTENDS Integers, Sequences, FiniteSets, TLC

(***************************************************************************)
(* Bounds of the model.                                                    *)
(***************************************************************************)
MaxLen == 3        \* longest text enumerated exhaustively over Sigma

(***************************************************************************)
(* Character classes of the regular expressions.                           *)
(***************************************************************************)
DigitChars == <<"0", "1", "2", "3", "4", "5", "6", "7", "8", "9">>

Digit == {DigitChars[k] : k \in 1..10}

LowerLetters == <<"a", "b", "c", "d", "e">>

UpperLetters == <<"A", "B", "C", "D", "E">>

Letter == {LowerLetters[k] : k \in 1..5} \cup {UpperLetters[k] : k \in 1..5}

Space == {" ", "\n", "\t"}

QPrefix == {"Q", "q"}

QSeparator == {":", "."}

NumPatterns == 5

\* the literal separator of patterns 1..4
PatternSeparator(p) ==
  CASE p = 1 -> "/"
    [] p = 2 -> "."
    [] p = 3 -> "-"
    [] p = 4 -> ":"

\* pattern 2 is /(\d+)\.\s*.../ : no \s* between the digits and the period
SpaceBeforeSeparator(p) == p # 2

PatternGlobalMissing(p) == p # 2

\* every pattern literal carries the g flag
PatternGlobal(p) == TRUE

(***************************************************************************)
(* Regular-expression matching.  Every quantifier of the five patterns is  *)
(* greedy and is followed by an item that cannot match a character of the  *)
(* quantified class, so giving characters back never turns a failure into  *)
(* a success: the first alternative of the backtracking matcher is the     *)
(* only one, and matching is the deterministic scan below.                 *)
(***************************************************************************)
RECURSIVE SkipClass(_, _, _)
\* first position >= i whose character is not in class C (Len+1 at the end)
SkipClass(text, i, C) ==
  IF i <= Len(text) /\ text[i] \in C THEN SkipClass(text, i + 1, C) ELSE i

RECURSIVE MoreLetters(_, _)
\* (?:\s*,\s*[a-eA-E]+)* from position e; the position after the last
\* complete repetition
MoreLetters(text, e) ==
  LET c == SkipClass(text, e, Space)
  IN  IF c <= Len(text) /\ text[c] = ","
      THEN LET l == SkipClass(text, c + 1, Space)
               r == SkipClass(text, l, Letter)
           IN  IF r > l THEN MoreLetters(text, r) ELSE e
      ELSE e

\* ([a-eA-E]+(?:\s*,\s*[a-eA-E]+)*) at position i; 0 when it does not match
PayloadEnd(text, i) ==
  LET r == SkipClass(text, i, Letter)
  IN  IF r > i THEN MoreLetters(text, r) ELSE 0

NoMatch == [ok |-> FALSE, from |-> 0, to |-> 0, numFrom |-> 0, numTo |-> 0,
            sepAt |-> 0, payFrom |-> 0, payTo |-> 0, pat |-> 0]

\* patterns 1..4 anchored at position i
MatchPlainAt(p, text, i) ==
  LET d == SkipClass(text, i, Digit)
      w == IF SpaceBeforeSeparator(p) THEN SkipClass(text, d, Space) ELSE d
  IN  IF d > i /\ w <= Len(text) /\ text[w] = PatternSeparator(p)
      THEN LET l == SkipClass(text, w + 1, Space)
               e == PayloadEnd(text, l)
           IN  IF e > 0
               THEN [ok |-> TRUE, from |-> i, to |-> e, numFrom |-> i,
                     numTo |-> d, sepAt |-> w, payFrom |-> l, payTo |-> e,
                     pat |-> p]
               ELSE NoMatch
      ELSE NoMatch

\* pattern 5, /[Qq](\d+)\s*[:.]?\s*(...)/, anchored at position i
MatchQAt(text, i) ==
  IF i <= Len(text) /\ text[i] \in QPrefix
  THEN LET d == SkipClass(text, i + 1, Digit)
           w == SkipClass(text, d, Space)
           hasSep == w <= Len(text) /\ text[w] \in QSeparator
           s == IF hasSep THEN w + 1 ELSE w
           l == SkipClass(text, s, Space)
           e == PayloadEnd(text, l)
       IN  IF d > i + 1 /\ e > 0
           THEN [ok |-> TRUE, from |-> i, to |-> e, numFrom |-> i + 1,
                 numTo |-> d, sepAt |-> IF hasSep THEN w ELSE 0,
                 payFrom |-> l, payTo |-> e, pat |-> 5]
           ELSE NoMatch
  ELSE NoMatch

MatchAt(p, text, i) ==
  IF p = 5 THEN MatchQAt(text, i) ELSE MatchPlainAt(p, text, i)

RECURSIVE Scan(_, _, _)
\* the successive matches of pattern p from position i on: leftmost match,
\* then on from its end (a match is never empty)
Scan(p, text, i) ==
  IF i > Len(text) THEN <<>>
  ELSE LET m == MatchAt(p, text, i)
       IN  IF m.ok THEN <<m>> \o Scan(p, text, m.to)
           ELSE Scan(p, text, i + 1)

\* text.matchAll(pattern): the matcher is a copy of the pattern that starts
\* at the pattern's lastIndex (0-based)
MatchAll(p, text, li) == Scan(p, text, li + 1)

LastIndexAfterExec(p, text, li) ==
  LET ms == Scan(p, text, li + 1)
  IN  IF ms = <<>> THEN 0 ELSE ms[1].to - 1

\* lastIndex of the pattern object after text.matchAll(pattern): matchAll
\* advances its own copy only
LastIndexAfterMatchAll(p, text, li) == li

(***************************************************************************)
(* String helpers.                                                         *)
(***************************************************************************)
DigitVal(c) == (CHOOSE k \in 1..10 : DigitChars[k] = c) - 1

ParseIntFirstChar(s) == IF s = <<>> THEN 0 ELSE DigitVal(s[1])

RECURSIVE ParseInt(_)
\* parseInt(s, 10) of a non-empty digit string
ParseInt(s) ==
  IF s = <<>> THEN 0
  ELSE 10 * ParseInt(SubSeq(s, 1, Len(s) - 1)) + DigitVal(s[Len(s)])

RECURSIVE NumToStr(_)
\* `${n}` of a non-negative integer
NumToStr(n) ==
  IF n < 10 THEN <<DigitChars[n + 1]>>
  ELSE NumToStr(n \div 10) \o <<DigitChars[(n % 10) + 1]>>

LowerOf(c) ==
  IF \E k \in 1..5 : UpperLetters[k] = c
  THEN LowerLetters[CHOOSE k \in 1..5 : UpperLetters[k] = c]
  ELSE IF c = "Q" THEN "q" ELSE c

ToLowerCase(s) == [k \in 1..Len(s) |-> LowerOf(s[k])]

Includes(s, c) == \E k \in 1..Len(s) : s[k] = c

RECURSIVE Split(_, _)
\* s.split(c)
Split(s, c) ==
  IF ~Includes(s, c) THEN <<s>>
  ELSE LET k == CHOOSE j \in 1..Len(s) :
                  s[j] = c /\ \A h \in 1..(j - 1) : s[h] # c
       IN  <<SubSeq(s, 1, k - 1)>> \o Split(SubSeq(s, k + 1, Len(s)), c)

TrimIdentity(s) == s

\* s.trim()
Trim(s) ==
  LET inside == {k \in 1..Len(s) : s[k] \notin Space}
  IN  IF inside = {} THEN <<>>
      ELSE SubSeq(s, CHOOSE k \in inside : \A h \in inside : k <= h,
                     CHOOSE k \in inside : \A h \in inside : k >= h)

\* answerString.split(',').map(a => a.trim()).filter(a => a.length > 0)
IndividualAnswers(answerString) ==
  SelectSeq([k \in 1..Len(Split(answerString, ",")) |->
               Trim(Split(answerString, ",")[k])],
            LAMBDA a : Len(a) > 0)

\* `${questionNumber}-${answer}`
UniqueKey(questionNumber, answer) ==
  NumToStr(questionNumber) \o <<"-">> \o answer

(***************************************************************************)
(* extractQCMAnswers.  The accumulator of the loops holds the local        *)
(* variables answers and processedAnswers; candidates logs every           *)
(* (questionNumber, answer, rawText) the loops reached, kept or not, in    *)
(* the order they were reached.                                            *)
(***************************************************************************)
EmptyAcc == [answers |-> <<>>, processedAnswers |-> {}, candidates |-> <<>>]

QCMAnswer(questionNumber, answer, rawText) ==
  [questionNumber |-> questionNumber, answer |-> answer, rawText |-> rawText]

AddAnswerUnchecked(acc, questionNumber, answer, rawText) ==
  [answers |-> Append(acc.answers, QCMAnswer(questionNumber, answer, rawText)),
   processedAnswers |->
     acc.processedAnswers \cup {UniqueKey(questionNumber, answer)},
   candidates |->
     Append(acc.candidates, QCMAnswer(questionNumber, answer, rawText))]

AddAnswerLastWins(acc, questionNumber, answer, rawText) ==
  IF UniqueKey(questionNumber, answer) \notin acc.processedAnswers
  THEN AddAnswerUnchecked(acc, questionNumber, answer, rawText)
  ELSE [acc EXCEPT
          !.answers = [k \in 1..Len(acc.answers) |->
             IF acc.answers[k].questionNumber = questionNumber
                /\ acc.answers[k].answer = answer
             THEN QCMAnswer(questionNumber, answer, rawText)
             ELSE acc.answers[k]],
          !.candidates = Append(@, QCMAnswer(questionNumber, answer, rawText))]

\* if (!processedAnswers.has(uniqueKey)) { answers.push(...);
\*                                         processedAnswers.add(uniqueKey) }
AddAnswer(acc, questionNumber, answer, rawText) ==
  IF UniqueKey(questionNumber, answer) \notin acc.processedAnswers
  THEN [answers |->
          Append(acc.answers, QCMAnswer(questionNumber, answer, rawText)),
        processedAnswers |->
          acc.processedAnswers \cup {UniqueKey(questionNumber, answer)},
        candidates |->
          Append(acc.candidates, QCMAnswer(questionNumber, answer, rawText))]
  ELSE [acc EXCEPT
          !.candidates = Append(@, QCMAnswer(questionNumber, answer, rawText))]

FromOpen == <<" ", "(", "f", "r", "o", "m", ":", " ">>

\* `${questionNumber}-${individualAnswer} (from: ${rawText})`
FromRawText(questionNumber, individualAnswer, rawText) ==
  UniqueKey(questionNumber, individualAnswer) \o FromOpen \o rawText \o <<")">>

RECURSIVE AddIndividualAnswers(_, _, _, _)
\* for (const individualAnswer of individualAnswers) { ... }
AddIndividualAnswers(acc, questionNumber, individualAnswers, rawText) ==
  IF individualAnswers = <<>> THEN acc
  ELSE AddIndividualAnswers(
         AddAnswer(acc, questionNumber, Head(individualAnswers),
                   FromRawText(questionNumber, Head(individualAnswers),
                               rawText)),
         questionNumber, Tail(individualAnswers), rawText)

\* the body of `for (const match of matches)`
ProcessMatch(acc, text, m) ==
  LET questionNumber == ParseInt(SubSeq(text, m.numFrom, m.numTo - 1))
      answerString == ToLowerCase(SubSeq(text, m.payFrom, m.payTo - 1))
      rawText == SubSeq(text, m.from, m.to - 1)
  IN  IF Includes(answerString, ",")
      THEN AddIndividualAnswers(acc, questionNumber,
                                IndividualAnswers(answerString), rawText)
      ELSE AddAnswer(acc, questionNumber, answerString, rawText)

RECURSIVE ProcessMatches(_, _, _)
ProcessMatches(acc, text, ms) ==
  IF ms = <<>> THEN acc
  ELSE ProcessMatches(ProcessMatch(acc, text, Head(ms)), text, Tail(ms))

RECURSIVE ProcessPatterns(_, _, _, _)
\* for (const pattern of this.patterns), from pattern p on
ProcessPatterns(acc, text, p, li) ==
  IF p > NumPatterns THEN acc
  ELSE ProcessPatterns(ProcessMatches(acc, text, MatchAll(p, text, li[p])),
                       text, p + 1, li)

RECURSIVE AllMatches(_, _, _)
\* every match the loops visit, in the order they visit them
AllMatches(text, p, li) ==
  IF p > NumPatterns THEN <<>>
  ELSE MatchAll(p, text, li[p]) \o AllMatches(text, p + 1, li)

\* the letters a..e collate in alphabetical order, after white space and
\* punctuation
CollationRank(c) ==
  IF \E k \in 1..5 : LowerLetters[k] = c
  THEN CHOOSE k \in 1..5 : LowerLetters[k] = c
  ELSE 0

RECURSIVE LexCompare(_, _)
\* a.localeCompare(b) for strings of the letters a..e
LexCompare(a, b) ==
  IF a = <<>> THEN (IF b = <<>> THEN 0 ELSE -1)
  ELSE IF b = <<>> THEN 1
  ELSE LET x == CollationRank(Head(a))
           y == CollationRank(Head(b))
       IN  IF x < y THEN -1
           ELSE IF x > y THEN 1
           ELSE LexCompare(Tail(a), Tail(b))

LocaleCompare(a, b) == LexCompare(a, b)

CompareByNumberOnly(a, b) == a.questionNumber - b.questionNumber

\* the comparator handed to answers.sort
Compare(a, b) ==
  IF a.questionNumber # b.questionNumber
  THEN a.questionNumber - b.questionNumber
  ELSE LocaleCompare(a.answer, b.answer)

RECURSIVE InsertSorted(_, _)
\* x placed behind the last element that does not compare greater than it
InsertSorted(sorted, x) ==
  IF sorted = <<>> THEN <<x>>
  ELSE IF Compare(sorted[Len(sorted)], x) > 0
       THEN Append(InsertSorted(SubSeq(sorted, 1, Len(sorted) - 1), x),
                   sorted[Len(sorted)])
       ELSE Append(sorted, x)

RECURSIVE SortAnswers(_)
\* Array.prototype.sort with Compare: a stable sort
SortAnswers(answers) ==
  IF answers = <<>> THEN <<>>
  ELSE InsertSorted(SortAnswers(SubSeq(answers, 1, Len(answers) - 1)),
                    answers[Len(answers)])

\* String.prototype.matchAll throws a TypeError for a pattern without g
Throws == \E p \in 1..NumPatterns : ~PatternGlobal(p)

\* one call of extractQCMAnswers(text), the patterns' lastIndex being li
ExtractQCMAnswers(text, li) ==
  LET acc == ProcessPatterns(EmptyAcc, text, 1, li)
  IN  [threw |-> Throws,
       answers |-> IF Throws THEN <<>> ELSE SortAnswers(acc.answers),
       pushed |-> acc.answers,
       candidates |-> acc.candidates,
       matches |-> AllMatches(text, 1, li)]

(***************************************************************************)
(* Input texts: every text of at most MaxLen characters over Sigma, one    *)
(* written answer in every notation and spacing, two-line texts, and the   *)
(* texts of the repository's test scripts.                                 *)
(***************************************************************************)
Sigma == {"0", "1", "/", ".", "Q", " ", ",", "a"}

ShortTexts == UNION {[1..n -> Sigma] : n \in 0..MaxLen}

Nums == {<<"0">>, <<"1">>, <<"2">>, <<"1", "0">>}

Gaps == {<<>>, <<" ">>}

\* <<prefix, separator>>
Notations ==
  {<< <<>>, <<"/">> >>, << <<>>, <<".">> >>, << <<>>, <<"-">> >>,
   << <<>>, <<":">> >>, << <<"Q">>, <<>> >>, << <<"q">>, <<":">> >>,
   << <<"Q">>, <<".">> >>}

Payloads ==
  {<<"a">>, <<"B">>, <<"b", "a">>, <<"b", ",", "a">>,
   <<"C", " ", ",", " ", "a">>, <<"f">>}

Entries ==
  {nt[1] \o n \o g1 \o nt[2] \o g2 \o pl :
     nt \in Notations, n \in Nums, g1 \in Gaps, g2 \in Gaps, pl \in Payloads}

SecondLines ==
  {<<"1", "/", "a">>, <<"1", ".", "B">>, <<"2", "-", "b">>,
   <<"Q", "1", ":", "a">>}

TwoLineTexts ==
  {nt[1] \o n \o nt[2] \o pl \o <<"\n">> \o l :
     nt \in Notations, n \in Nums, pl \in Payloads, l \in SecondLines}

\* "1/AB\n2-BC"
TextMultiLetter == <<"1", "/", "A", "B", "\n", "2", "-", "B", "C">>

\* "1-b,c"
TextComma == <<"1", "-", "b", ",", "c">>

\* "2. a, d, e"
TextCommaSpaced == <<"2", ".", " ", "a", ",", " ", "d", ",", " ", "e">>

\* "1/A\n1/A"
TextRepeated == <<"1", "/", "A", "\n", "1", "/", "A">>

\* "Q1: a"
TextQColon == <<"Q", "1", ":", " ", "a">>

\* "1/c\n2/b\n3/a\n4/d\n5/e"
TextFive ==
  <<"1", "/", "c", "\n", "2", "/", "b", "\n", "3", "/", "a", "\n",
    "4", "/", "d", "\n", "5", "/", "e">>

\* "no answers here"
TextNoAnswers ==
  <<"n", "o", " ", "a", "n", "s", "w", "e", "r", "s", " ",
    "h", "e", "r", "e">>

TestTexts ==
  {TextMultiLetter, TextComma, TextCommaSpaced, TextRepeated, TextQColon,
   TextFive, TextNoAnswers}

Texts == ShortTexts \cup Entries \cup TwoLineTexts \cup TestTexts

\* the other text of the calls that follow the first extraction
Probes == {TextQColon}

(***************************************************************************)
(* The state: the lastIndex of the five static pattern objects (the only   *)
(* state the class owns), the last call and what it returned, and the      *)
(* first extraction of the behaviour; probed records that another text     *)
(* was extracted after it.                                                 *)
(***************************************************************************)
VARIABLES lastIndex, pc, op, text, ret, pushed, candidates, matches,
          first, probed

(***************************************************************************)
(* The state of the feedback services (src/services/FlashlightService.ts   *)
(* holds FlashlightService and HapticService;                              *)
(* src/unnamed/part_003 holds QCMVibrationFlashService):                   *)
(*   platform, revision   Platform.OS and which of the two revisions of    *)
(*                        QCMVibrationFlashService is built;               *)
(*   settings             HapticService.settings;                          *)
(*   isFlashlightOn, hasPermission, permissionChecked                      *)
(*                        the static fields of FlashlightService;          *)
(*   now                  the clock, in ms;                                *)
(*   status, call, todo, wake, trace                                       *)
(*                        per asynchronous call chain: whether it is       *)
(*                        pending, the entry call, the rest of its code    *)
(*                        (its continuation), the time its pending await   *)
(*                        settles, and what it has emitted so far;         *)
(*   faults               the effector calls that have rejected;           *)
(*   hapticAvailable, apiInitialized, isProcessing                         *)
(*                        the state of HomeScreen (src/unnamed/part_000);  *)
(*   currentSettings      APIIntegrationService.currentSettings            *)
(*                        (src/unnamed/part_002);                          *)
(*   pollingInterval      QCMServerService.pollingInterval: the timer it   *)
(*                        holds, or NoTimer (src/services/                 *)
(*                        QCMServerService.ts);                            *)
(*   timers               the interval timers of the runtime that are      *)
(*                        alive (setInterval without clearInterval);       *)
(*   isPolling            HomeScreen's isPolling state;                    *)
(*   listeners            QCMServerService.listeners;                      *)
(*   isInitialized        APIIntegrationService.isInitialized;             *)
(*   eventListeners       whether APIIntegrationService holds the event    *)
(*                        listeners of setEventListeners (or null);        *)
(*   mounted              whether HomeScreen is mounted;                   *)
(*   processingInterval, isProcessingActive, backgroundSettings            *)
(*                        the fields of BackgroundTaskService (the last    *)
(*                        is its currentSettings);                         *)
(*   inFlight             the awaits on the network, the device probes and *)
(*                        the storage that have not settled;               *)
(*   delivered            what the timers and the polled data have set     *)
(*                        off so far: listener invocations and cycles.     *)
(***************************************************************************)
VARIABLES platform, revision, settings, isFlashlightOn, hasPermission,
          permissionChecked, now, status, call, todo, wake, trace, faults

VARIABLES hapticAvailable, apiInitialized, isProcessing, currentSettings,
          pollingInterval, timers, isPolling

VARIABLES listeners, isInitialized, eventListeners, mounted,
          processingInterval, isProcessingActive, backgroundSettings,
          inFlight, delivered

extractVars == <<lastIndex, pc, op, text, ret, pushed, candidates, matches,
                 first, probed>>

appVars == <<hapticAvailable, apiInitialized, isProcessing, currentSettings,
             pollingInterval, timers, isPolling>>

serviceVars == <<listeners, isInitialized, eventListeners, mounted,
                 processingInterval,
                 isProcessingActive, backgroundSettings, inFlight, delivered>>

playVars == <<platform, revision, settings, isFlashlightOn, hasPermission,
              permissionChecked, now, status, call, todo, wake, trace,
              faults, appVars>>

vars == <<extractVars, playVars, serviceVars>>

\* the two call chains the model follows at a time
Run == {1, 2}

\* HapticService.defaultSettings: a pattern without a delay has delay 0
MaximumPulse ==
  [type |-> "custom", intensity |-> "maximum", duration |-> 1000, delay |-> 0]

\* a pattern that lost its delay
UndelayedPulse == MaximumPulse

DelayedPulse == [MaximumPulse EXCEPT !.delay = 200]

SeparatorBeep ==
  [type |-> "custom", intensity |-> "heavy", duration |-> 5000, delay |-> 0]

defaultSettings ==
  [enabled |-> TRUE,
   answerPatterns |->
     (<<"a">> :> <<MaximumPulse>>) @@
     (<<"b">> :> <<MaximumPulse, DelayedPulse>>) @@
     (<<"c">> :> <<MaximumPulse, DelayedPulse, DelayedPulse>>) @@
     (<<"d">> :> <<MaximumPulse, DelayedPulse, DelayedPulse, DelayedPulse>>) @@
     (<<"e">> :> <<MaximumPulse, DelayedPulse, DelayedPulse, DelayedPulse,
                   DelayedPulse>>),
   questionNumberPattern |-> <<MaximumPulse>>,
   separatorPattern |-> <<SeparatorBeep>>,
   delayBetweenAnswers |-> 500,
   delayBetweenQuestions |-> 1200]

\* QCMVibrationFlashService.defaultSettings
defaultFlashSettings ==
  [enableVibration |-> TRUE,
   enableFlashlight |-> TRUE,
   flashlightSeparatorDuration |-> 500,
   delayBetweenAnswers |-> 1000,
   delayAfterSeparator |-> 300]

\* pollingInterval and processingInterval are null
NoTimer == 0

\* the services and the screen as constructed
Built ==
  /\ hapticAvailable = FALSE
  /\ apiInitialized = FALSE
  /\ isProcessing = FALSE
  /\ currentSettings = [autoProcess |-> TRUE,
                        processingSettings |-> defaultFlashSettings,
                        stopAfterProcessing |-> TRUE]
  /\ pollingInterval = NoTimer
  /\ timers = {}
  /\ isPolling = FALSE
  /\ listeners = <<>>
  /\ isInitialized = FALSE
  /\ eventListeners = FALSE
  /\ mounted = FALSE
  /\ processingInterval = NoTimer
  /\ isProcessingActive = FALSE
  /\ backgroundSettings = [set |-> FALSE]
  /\ inFlight = <<>>
  /\ delivered = <<>>
  /\ settings = defaultSettings
  /\ isFlashlightOn = FALSE
  /\ hasPermission = FALSE
  /\ permissionChecked = FALSE
  /\ now = 0
  /\ status = [r \in Run |-> "idle"]
  /\ call = [r \in Run |-> [op |-> "none"]]
  /\ todo = [r \in Run |-> <<>>]
  /\ wake = [r \in Run |-> 0]
  /\ trace = [r \in Run |-> <<>>]

Constructed ==
  /\ Built
  /\ faults = 0

\* QCMPatternService as loaded, nothing called yet
Loaded ==
  /\ lastIndex = [p \in 1..NumPatterns |-> 0]
  /\ pc = "idle"
  /\ op = "none"
  /\ text = <<>>
  /\ ret = <<>>
  /\ pushed = <<>>
  /\ candidates = <<>>
  /\ matches = <<>>
  /\ probed = FALSE
  /\ first = [set |-> FALSE, text |-> <<>>, answers |-> <<>>]

Init ==
  /\ Loaded
  /\ platform = "android"
  /\ revision = 1
  /\ Constructed

Inputs == IF first.set THEN {first.text} \cup Probes ELSE Texts

SameInput == {first.text}

\* what one run of extractQCMAnswers(t) does to the state
RunExtract(t, r) ==
  /\ pc' = IF r.threw THEN "threw" ELSE "returned"
  /\ text' = t
  /\ pushed' = r.pushed
  /\ candidates' = r.candidates
  /\ matches' = r.matches
  /\ lastIndex' = [p \in 1..NumPatterns |->
                     LastIndexAfterMatchAll(p, t, lastIndex[p])]
  /\ UNCHANGED <<playVars, serviceVars>>

\* QCMPatternService.extractQCMAnswers(t)
Extract(t) ==
  /\ LET r == ExtractQCMAnswers(t, lastIndex)
     IN  /\ RunExtract(t, r)
         /\ op' = "extract"
         /\ ret' = r.answers
         /\ first' = IF first.set \/ r.threw THEN first
                     ELSE [set |-> TRUE, text |-> t, answers |-> r.answers]
         /\ probed' = (probed \/ (first.set /\ t # first.text))

\* QCMPatternService.containsQCMAnswers(t)
ContainsQCMAnswers(t) ==
  /\ LET r == ExtractQCMAnswers(t, lastIndex)
     IN  /\ RunExtract(t, r)
         /\ op' = "contains"
         /\ ret' = (Len(r.answers) > 0)
         /\ UNCHANGED <<first, probed>>

\* QCMPatternService.getQCMAnswerCount(t)
GetQCMAnswerCount(t) ==
  /\ LET r == ExtractQCMAnswers(t, lastIndex)
     IN  /\ RunExtract(t, r)
         /\ op' = "count"
         /\ ret' = Len(r.answers)
         /\ UNCHANGED <<first, probed>>

Next ==
  \/ \E t \in Inputs : Extract(t)
  \/ \E t \in SameInput : ContainsQCMAnswers(t)
  \/ \E t \in SameInput : GetQCMAnswerCount(t)

Spec == Init /\ [][Next]_vars

TypeOK ==
  /\ pc \in {"idle", "returned", "threw"}
  /\ op \in {"none", "extract", "contains", "count"}
  /\ probed \in BOOLEAN

(***************************************************************************)
(* Vocabulary of the properties.                                           *)
(***************************************************************************)
\* an extractQCMAnswers call has returned and ret is its list
Returned == pc = "returned" /\ op = "extract"

Pair(a) == <<a.questionNumber, a.answer>>

PairSeq(answers) == [k \in 1..Len(answers) |-> Pair(answers[k])]

PairSet(answers) == {Pair(answers[k]) : k \in 1..Len(answers)}

LetterRank(c) == CHOOSE k \in 1..5 : LowerLetters[k] = c

\* a is b or comes before b in alphabetical order
AlphabeticallyLeq(a, b) ==
  \/ a = b
  \/ \E k \in 1..(Len(a) + 1) :
       /\ \A h \in 1..(k - 1) : h <= Len(b) /\ a[h] = b[h]
       /\ k <= Len(b)
       /\ (k <= Len(a) => LetterRank(a[k]) < LetterRank(b[k]))

\* the characters of t from position i to position j - 1
Slice(t, i, j) == SubSeq(t, i, j - 1)

\* the letter runs written in the payload of match m
LetterRuns(t, m) ==
  {Slice(t, ij[1], ij[2]) : ij \in
     {ij \in (m.payFrom..m.payTo) \X (m.payFrom..m.payTo) :
        /\ ij[1] < ij[2]
        /\ \A k \in ij[1]..(ij[2] - 1) : t[k] \in Letter
        /\ (ij[1] = m.payFrom \/ t[ij[1] - 1] \notin Letter)
        /\ (ij[2] = m.payTo \/ t[ij[2]] \notin Letter)}}

HasComma(t, m) == \E k \in m.payFrom..(m.payTo - 1) : t[k] = ","

RECURSIVE Pow10(_)
Pow10(n) == IF n = 0 THEN 1 ELSE 10 * Pow10(n - 1)

RECURSIVE RunValue(_, _, _)
\* the number written by the digits of t at positions i .. j - 1
RunValue(t, i, j) ==
  IF i >= j THEN 0
  ELSE DigitVal(t[i]) * Pow10(j - i - 1) + RunValue(t, i + 1, j)

\* the digits of m are a whole digit run of t, and only white space lies
\* between them and the separator
MaximalDigitRun(t, m) ==
  /\ m.numFrom < m.numTo
  /\ \A k \in m.numFrom..(m.numTo - 1) : t[k] \in Digit
  /\ (m.numFrom = 1 \/ t[m.numFrom - 1] \notin Digit)
  /\ (m.numTo > Len(t) \/ t[m.numTo] \notin Digit)
  /\ (m.sepAt > 0 => \A k \in m.numTo..(m.sepAt - 1) : t[k] \in Space)

\* t with character c put in front of position i
InsertAt(t, i, c) == SubSeq(t, 1, i - 1) \o <<c>> \o SubSeq(t, i, Len(t))

NoIndex == [p \in 1..NumPatterns |-> 0]

AllSpace(t, i, j) == \A k \in i..j : t[k] \in Space

\* t holds an answer written in one of the five notations: a digit at i and
\* a letter at j with nothing between them but the separator and white space
HasNotation(t) ==
  \E i \in 1..Len(t), j \in 1..Len(t) :
    /\ i < j
    /\ t[i] \in Digit
    /\ t[j] \in Letter
    /\ \/ \E k \in (i + 1)..(j - 1) :
            /\ t[k] \in {"/", "-", ":"}
            /\ AllSpace(t, i + 1, k - 1)
            /\ AllSpace(t, k + 1, j - 1)
       \/ /\ i + 1 < j
          /\ t[i + 1] = "."
          /\ AllSpace(t, i + 2, j - 1)
       \/ /\ \E q \in 1..(i - 1) :
               /\ t[q] \in QPrefix
               /\ \A k \in (q + 1)..i : t[k] \in Digit
          /\ \/ AllSpace(t, i + 1, j - 1)
             \/ \E k \in (i + 1)..(j - 1) :
                  /\ t[k] \in QSeparator
                  /\ AllSpace(t, i + 1, k - 1)
                  /\ AllSpace(t, k + 1, j - 1)

\* the first position of candidates that holds the pair of answer a
FirstCandidate(a) ==
  CHOOSE k \in 1..Len(candidates) :
    /\ Pair(candidates[k]) = Pair(a)
    /\ \A h \in 1..(k - 1) : Pair(candidates[h]) # Pair(a)

(***************************************************************************)
(* Properties of extractQCMAnswers.                                        *)
(***************************************************************************)

\* C1: the list extractQCMAnswers returns is sorted by questionNumber
\* ascending and, for equal questionNumber, by answer ascending.
ResultSorted ==
  Returned =>
    \A i \in 1..Len(ret), j \in 1..Len(ret) :
      i < j =>
        \/ ret[i].questionNumber < ret[j].questionNumber
        \/ /\ ret[i].questionNumber = ret[j].questionNumber
           /\ AlphabeticallyLeq(ret[i].answer, ret[j].answer)

\* C1 witness: the sort moved answers, one tie was broken by the letter and
\* two question numbers were put in order
SortReordered ==
  /\ Returned
  /\ ret # pushed
  /\ \E i \in 1..(Len(ret) - 1) :
       /\ ret[i].questionNumber = ret[i + 1].questionNumber
       /\ ret[i].answer # ret[i + 1].answer
  /\ \E i \in 1..(Len(ret) - 1) :
       ret[i].questionNumber < ret[i + 1].questionNumber

\* C2: the returned list holds at most one answer for a
\* (questionNumber, answer) pair, however often and in however many
\* notations the pair is written; "1/A\n1/A" and "Q1: a" yield (1,a) alone.
ResultPairsUnique ==
  Returned =>
    /\ \A i \in 1..Len(ret), j \in 1..Len(ret) :
         i # j => Pair(ret[i]) # Pair(ret[j])
    /\ text \in {TextRepeated, TextQColon} =>
         PairSeq(ret) = << <<1, <<"a">> >> >>

\* C2 witness: one notation wrote the same pair twice and one answer came
\* back
RepeatedPairCollapsed ==
  /\ Returned
  /\ Len(ret) = 1
  /\ Len(matches) = 2
  /\ matches[1].pat = matches[2].pat
  /\ Len(candidates) = 2
  /\ Pair(candidates[1]) = Pair(candidates[2])

\* C3: a payload of k consecutive letters without a comma yields k
\* single-letter answers for its question number; "1/AB\n2-BC" yields
\* (1,a),(1,b),(2,b),(2,c).
ConsecutiveLettersExpanded ==
  Returned =>
    /\ text = TextMultiLetter =>
         PairSeq(ret) = << <<1, <<"a">> >>, <<1, <<"b">> >>,
                           <<2, <<"b">> >>, <<2, <<"c">> >> >>
    /\ \A n \in 1..Len(matches) :
         ~HasComma(text, matches[n]) =>
           \A k \in matches[n].payFrom..(matches[n].payTo - 1) :
             <<RunValue(text, matches[n].numFrom, matches[n].numTo),
               <<LowerOf(text[k])>> >> \in PairSet(ret)

\* C4: every returned answer is exactly one lowercase letter of a..e.
AnswersAreSingleLetters ==
  Returned =>
    \A k \in 1..Len(ret) :
      /\ Len(ret[k].answer) = 1
      /\ \E h \in 1..5 : ret[k].answer[1] = LowerLetters[h]

\* C5: every letter run between the commas of a payload with commas is an
\* answer of its question number, trimmed; "1-b,c" yields (1,b),(1,c) and
\* "2. a, d, e" yields (2,a),(2,d),(2,e).
CommaPayloadSplit ==
  Returned =>
    /\ text = TextComma =>
         PairSeq(ret) = << <<1, <<"b">> >>, <<1, <<"c">> >> >>
    /\ text = TextCommaSpaced =>
         PairSeq(ret) = << <<2, <<"a">> >>, <<2, <<"d">> >>,
                           <<2, <<"e">> >> >>
    /\ \A n \in 1..Len(matches) :
         HasComma(text, matches[n]) =>
           \A run \in LetterRuns(text, matches[n]) :
             <<RunValue(text, matches[n].numFrom, matches[n].numTo),
               [k \in 1..Len(run) |-> LowerOf(run[k])]>> \in PairSet(ret)
    /\ \A k \in 1..Len(ret) :
         \A h \in 1..Len(ret[k].answer) :
           ret[k].answer[h] \notin Space \cup {","}

\* C5 witness: a payload with commas and white space around them was split
CommaPayloadSeen ==
  /\ Returned
  /\ \E n \in 1..Len(matches) :
       /\ HasComma(text, matches[n])
       /\ \E k \in matches[n].payFrom..(matches[n].payTo - 1) :
            text[k] \in Space
  /\ Len(ret) >= 2

\* C6: no call throws; a text without an answer in any of the five
\* notations (the empty text among them), and no other text, yields the
\* empty list, containsQCMAnswers false and getQCMAnswerCount 0.
NeverThrowsEmptyOnNoMatch ==
  /\ pc # "threw"
  /\ pc = "returned" =>
       /\ op = "extract" => (ret = <<>> <=> ~HasNotation(text))
       /\ op = "contains" => (ret = FALSE <=> ~HasNotation(text))
       /\ op = "count" => (ret = 0 <=> ~HasNotation(text))

\* C6 witness: getQCMAnswerCount returned 0 for "no answers here"
NoAnswersCounted ==
  /\ pc = "returned"
  /\ op = "count"
  /\ text = TextNoAnswers
  /\ first.set
  /\ first.answers = <<>>
  /\ ret = 0

\* C7 as claimed: every questionNumber is at least 1 and is the value of
\* the whole digit run written before the separator.
QuestionNumberPositive ==
  Returned =>
    \A k \in 1..Len(ret) :
      /\ ret[k].questionNumber >= 1
      /\ \E n \in 1..Len(matches) :
           /\ MaximalDigitRun(text, matches[n])
           /\ ret[k].questionNumber =
                RunValue(text, matches[n].numFrom, matches[n].numTo)

\* C7 amended: every questionNumber is a non-negative integer, the value of
\* the whole digit run written before the separator of a match that wrote
\* the answer.
QuestionNumberIsDigitRunValue ==
  Returned =>
    \A k \in 1..Len(ret) :
      /\ ret[k].questionNumber \in Nat
      /\ \E n \in 1..Len(matches) :
           /\ MaximalDigitRun(text, matches[n])
           /\ ret[k].questionNumber =
                RunValue(text, matches[n].numFrom, matches[n].numTo)
           /\ \/ /\ ~HasComma(text, matches[n])
                 /\ ret[k].answer =
                      ToLowerCase(Slice(text, matches[n].payFrom,
                                        matches[n].payTo))
              \/ /\ HasComma(text, matches[n])
                 /\ \E run \in LetterRuns(text, matches[n]) :
                      ret[k].answer = ToLowerCase(run)
  /\ \A n \in 1..Len(matches) : MaximalDigitRun(text, matches[n])

\* C7 witness: question number 0 was returned next to a positive one
ZeroQuestionNumberReturned ==
  /\ Returned
  /\ \E k \in 1..Len(ret) : ret[k].questionNumber = 0
  /\ \E k \in 1..Len(ret) : ret[k].questionNumber >= 1

\* C8: white space put before or after the separator of a written answer
\* does not change the set of (questionNumber, answer) pairs extracted.
WhitespaceAroundSeparatorInsignificant ==
  Returned =>
    \A n \in 1..Len(matches) :
      matches[n].sepAt > 0 =>
        /\ PairSet(ExtractQCMAnswers(
                     InsertAt(text, matches[n].sepAt, " "), NoIndex).answers)
             = PairSet(ret)
        /\ PairSet(ExtractQCMAnswers(
                     InsertAt(text, matches[n].sepAt + 1, " "),
                     NoIndex).answers)
             = PairSet(ret)

\* C9: an extraction of the text of the first extraction returns what the
\* first one returned, whatever was extracted in between, and
\* containsQCMAnswers and getQCMAnswerCount agree with it; the patterns
\* carry nothing over from one call to the next.
RepeatedExtractSameResult ==
  /\ lastIndex = NoIndex
  /\ (pc = "returned" /\ first.set /\ text = first.text) =>
       /\ op = "extract" => ret = first.answers
       /\ op = "contains" => ret = (Len(first.answers) > 0)
       /\ op = "count" => ret = Len(first.answers)

\* C9 witness: the first text was extracted again after another text, with
\* answers in it
ExtractedAgainAfterProbe ==
  /\ Returned
  /\ first.set
  /\ text = first.text
  /\ probed
  /\ text # TextQColon
  /\ ret # <<>>

\* C10: the answer kept for a pair carries the rawText of the first match
\* that produced the pair, and the pair is in the list once.
EarliestRawTextKept ==
  Returned =>
    /\ \A k \in 1..Len(ret) :
         /\ \E h \in 1..Len(candidates) : Pair(candidates[h]) = Pair(ret[k])
         /\ ret[k].rawText = candidates[FirstCandidate(ret[k])].rawText
         /\ Cardinality({h \in 1..Len(ret) : Pair(ret[h]) = Pair(ret[k])}) = 1
    /\ \A h \in 1..Len(candidates) : Pair(candidates[h]) \in PairSet(ret)

\* C10 witness: two notations produced the same pair with different rawText
LaterMatchSkipped ==
  /\ Returned
  /\ \E i \in 1..Len(candidates), j \in 1..Len(candidates) :
       /\ i < j
       /\ Pair(candidates[i]) = Pair(candidates[j])
       /\ candidates[i].rawText # candidates[j].rawText
  /\ \E m \in 1..Len(matches), n \in 1..Len(matches) :
       matches[m].pat # matches[n].pat

(***************************************************************************)
(* The feedback services.  An asynchronous call chain is followed as its   *)
(* continuation: todo[r] is the code the chain has still to run, an        *)
(* instruction per call or await, and every action below runs the first    *)
(* instruction of a chain at the time its pending await settles.  A called *)
(* function is replaced by its body when it is reached, so it reads the    *)
(* static fields as they are at that time.  trace[r] lists what the chain  *)
(* has emitted: the vibrations, the waits, the torch commands and the      *)
(* iterations of the playback loops, each with the time it began.          *)
(***************************************************************************)
MaxFaults == 3     \* effector calls that reject in one behaviour
MaxQuestion == 11  \* largest question number passed to vibrateForQuestionNumber

Min(a, b) == IF a < b THEN a ELSE b

\* ---- the instructions
\* this.delay(ms) of QCMVibrationFlashService.processQCMWithFlashSeparation
DelayFor(ms) == [op |-> "delay", ms |-> ms, log |-> TRUE, inner |-> FALSE]

\* the wait inside FlashlightService.flash is part of the flash step
HoldFor(ms) == [op |-> "delay", ms |-> ms, log |-> FALSE, inner |-> TRUE]

\* this.delay(ms) of HapticService, a wait inside the emission of pulses
GapFor(ms) == [op |-> "delay", ms |-> ms, log |-> TRUE, inner |-> TRUE]

Catch(of) == [op |-> "catch", of |-> of]

Iteration(event) == [op |-> "iterate", event |-> event]

\* a catch block that only throws the error on
HandlerRethrows(of) == <<[op |-> "throw"]>>

\* a catch block that does not throw the error on
HandlerSwallows(of) ==
  IF of = "flash"
  THEN <<[op |-> "turnOff", swallow |-> TRUE]>>
  ELSE IF of = "process"
  THEN <<[op |-> "emergencyOff"]>>
  ELSE IF of = "processQCMData"
  THEN <<[op |-> "onError"]>>
  ELSE <<>>

\* what the catch block of a function runs: the ones of flash and of
\* processQCMWithFlashSeparation throw the error on, the ones of
\* processQCMData and of handleProcessText do not
Handler(of) ==
  IF of = "flash"
  THEN <<[op |-> "turnOff", swallow |-> TRUE], [op |-> "throw"]>>
  ELSE IF of = "process"
  THEN <<[op |-> "emergencyOff"], [op |-> "throw"]>>
  ELSE IF of = "processQCMData"
  THEN <<[op |-> "onError"]>>
  ELSE <<>>

Uncaught == [op |-> "uncaught"]

\* an error nobody catches leaves the promise of the chain pending
UnwindLost(code) == <<[op |-> "lost"]>>

\* a thrown error leaves the code up to the nearest enclosing catch
RECURSIVE Unwind(_)
Unwind(code) ==
  IF Len(code) = 0 THEN <<Uncaught>>
  ELSE IF code[1].op = "catch" THEN Handler(code[1].of) \o Tail(code)
  ELSE Unwind(Tail(code))

\* a try block that ends without an error leaves its catch behind
RECURSIVE LeaveTry(_)
LeaveTry(code) ==
  IF Len(code) > 0 /\ code[1].op = "catch" THEN LeaveTry(Tail(code))
  ELSE code

\* ---- scheduling: the chain whose await settles first runs next
Pending(r) == status[r] = "running"

Turn(r) ==
  /\ Pending(r)
  /\ \A o \in Run : Pending(o) => wake[r] <= wake[o]

Instruction(r) == todo[r][1]

Rest(r) == Tail(todo[r])

\* chain r goes on with code after an await that settles at time w
Advance(r, code, w, events) ==
  LET left == LeaveTry(code)
      thrown == Len(left) > 0 /\ left[1].op = "uncaught"
  IN  /\ now' = wake[r]
      /\ todo' = [todo EXCEPT ![r] = IF thrown THEN <<>> ELSE left]
      /\ wake' = [wake EXCEPT ![r] = w]
      /\ trace' = [trace EXCEPT ![r] = @ \o events]
      /\ status' = [status EXCEPT ![r] =
                      IF thrown THEN "rejected"
                      ELSE IF Len(left) = 0 THEN "resolved"
                      ELSE "running"]
      /\ UNCHANGED <<call, platform, revision, settings, extractVars,
                 serviceVars>>

\* the same for a step inside the feedback services
Proceed(r, code, w, events) ==
  /\ Advance(r, code, w, events)
  /\ UNCHANGED appVars

\* chain r throws at its first instruction
Raise(r, events) == Proceed(r, Unwind(Rest(r)), wake[r], events)

\* setTimeout fires at once when the time is not positive
FireAfter(ms) == IF ms < 0 THEN 0 ELSE ms

\* HapticService.delay, FlashlightService.delay, QCMVibrationFlashService.delay
Delay(r) ==
  /\ Turn(r)
  /\ Instruction(r).op = "delay"
  /\ Proceed(r, Rest(r), wake[r] + FireAfter(Instruction(r).ms),
             IF Instruction(r).log
             THEN <<[k |-> "silence", at |-> wake[r], ms |-> Instruction(r).ms,
                     span |-> FireAfter(Instruction(r).ms),
                     inner |-> Instruction(r).inner]>>
             ELSE <<>>)
  /\ UNCHANGED <<isFlashlightOn, hasPermission, permissionChecked, faults>>

\* ---- HapticService
\* the time the vibration of a custom maximum pattern is on
OnTime(pattern) ==
  LET duration == IF pattern.duration = 0 THEN 500 ELSE pattern.duration
  IN  IF platform = "android" THEN duration ELSE (duration \div 100) * 100

\* the length of what Vibration.vibrate is given to play
PatternLength(pattern) ==
  LET duration == IF pattern.duration = 0 THEN 500 ELSE pattern.duration
  IN  IF platform = "android" THEN duration ELSE (duration \div 100) * 150

\* the time executeVibrationPattern waits after Vibration.vibrate
PulseWaitNone(pattern) == 0

PulseWait(pattern) == PatternLength(pattern)

\* HapticService.getHapticType
GetHapticType(type, intensity) ==
  IF intensity = "maximum" THEN "Heavy"
  ELSE IF type \in {"long", "custom"} THEN "Heavy"
  ELSE IF intensity = "light" THEN "Light"
  ELSE IF intensity = "heavy" THEN "Heavy"
  ELSE "Medium"

PulseEvent(r, pattern, part, how, ms, span) ==
  [k |-> "pulse", at |-> wake[r], part |-> part, how |-> how,
   duration |-> pattern.duration, ms |-> ms, span |-> span]

\* HapticService.executeVibrationPattern; failed counts the calls that
\* throw: the vibration, and then the fallback haptic as well
ExecuteVibrationPattern(r) ==
  /\ Turn(r)
  /\ Instruction(r).op = "executeVibrationPattern"
  /\ LET pattern == Instruction(r).pattern
         part == Instruction(r).part
         maximum == pattern.type = "custom" /\ pattern.intensity = "maximum"
         twice == pattern.intensity \in {"heavy", "maximum"}
     IN  IF ~settings.enabled
         THEN /\ Proceed(r, Rest(r), wake[r], <<>>)
              /\ UNCHANGED faults
         ELSE \E failed \in 0..Min(2, MaxFaults - faults) :
                /\ faults' = faults + failed
                /\ IF failed = 0
                   THEN IF maximum
                        THEN Proceed(r, Rest(r), wake[r] + PulseWait(pattern),
                               <<PulseEvent(r, pattern, part, "vibrate",
                                            OnTime(pattern),
                                            PatternLength(pattern))>>)
                        ELSE Proceed(r, Rest(r),
                               wake[r] + (IF twice THEN 100 ELSE 0),
                               <<PulseEvent(r, pattern, part,
                                   GetHapticType(pattern.type,
                                                 pattern.intensity),
                                   0, IF twice THEN 100 ELSE 0)>>)
                   ELSE IF failed = 1
                   THEN Proceed(r, Rest(r), wake[r] + 100,
                          <<PulseEvent(r, pattern, part, "fallback", 0, 100)>>)
                   ELSE Proceed(r, Rest(r), wake[r],
                          <<PulseEvent(r, pattern, part, "failed", 0, 0)>>)
  /\ UNCHANGED <<isFlashlightOn, hasPermission, permissionChecked>>

\* HapticService.executeVibrationSequence(patterns), from pattern i on
RECURSIVE SequenceFrom(_, _, _)
SequenceFrom(patterns, i, part) ==
  IF i > Len(patterns) THEN <<>>
  ELSE (IF i > 1 /\ patterns[i].delay # 0
        THEN <<GapFor(patterns[i].delay)>> ELSE <<>>)
       \o <<[op |-> "executeVibrationPattern", pattern |-> patterns[i],
             part |-> part]>>
       \o SequenceFrom(patterns, i + 1, part)

ExecuteVibrationSequence(patterns, part) == SequenceFrom(patterns, 1, part)

\* HapticService.vibrateForAnswer, also reached as testAnswerVibration
VibrateForAnswer(r) ==
  /\ Turn(r)
  /\ Instruction(r).op = "vibrateForAnswer"
  /\ LET normalizedAnswer == ToLowerCase(Instruction(r).answer)
     IN  IF normalizedAnswer \notin DOMAIN settings.answerPatterns
         THEN Proceed(r, Rest(r), wake[r],
                <<[k |-> "unknown", at |-> wake[r],
                   answer |-> Instruction(r).answer]>>)
         ELSE Proceed(r,
                ExecuteVibrationSequence(
                  settings.answerPatterns[normalizedAnswer], "answer")
                \o Rest(r),
                wake[r], <<>>)
  /\ UNCHANGED <<isFlashlightOn, hasPermission, permissionChecked, faults>>

\* the patterns vibrateForQuestionNumber builds for the number
NumberPatternsUncapped(questionNumber) ==
  [i \in 1..(IF questionNumber < 0 THEN 0 ELSE questionNumber) |->
     [MaximumPulse EXCEPT !.delay = IF i > 1 THEN 200 ELSE 0]]

NumberPatterns(questionNumber) ==
  [i \in 1..(IF questionNumber < 0 THEN 0 ELSE Min(questionNumber, 10)) |->
     [MaximumPulse EXCEPT !.delay = IF i > 1 THEN 200 ELSE 0]]

\* HapticService.vibrateForQuestionNumber
VibrateForQuestionNumber(r) ==
  /\ Turn(r)
  /\ Instruction(r).op = "vibrateForQuestionNumber"
  /\ Proceed(r,
       ExecuteVibrationSequence(settings.questionNumberPattern, "marker")
       \o <<GapFor(200)>>
       \o ExecuteVibrationSequence(NumberPatterns(Instruction(r).questionNumber),
                                   "number")
       \o Rest(r),
       wake[r], <<>>)
  /\ UNCHANGED <<isFlashlightOn, hasPermission, permissionChecked, faults>>

\* ---- FlashlightService
TorchEvent(r, mode, ok) ==
  [k |-> "torch", at |-> wake[r], mode |-> mode, ok |-> ok]

\* a flash that leaves the torch on when the time is over
FlashStepsWithoutOff(duration) ==
  <<[op |-> "turnOn"], HoldFor(duration), Catch("flash")>>

\* the try block of flash and its catch
FlashSteps(duration) ==
  <<[op |-> "turnOn"], HoldFor(duration),
    [op |-> "turnOff", swallow |-> FALSE], Catch("flash")>>

\* FlashlightService.flash(duration)
Flash(r) ==
  /\ Turn(r)
  /\ Instruction(r).op = "flash"
  /\ Proceed(r, FlashSteps(Instruction(r).duration) \o Rest(r),
       wake[r],
       <<[k |-> "flash", at |-> wake[r], ms |-> Instruction(r).duration,
          span |-> FireAfter(Instruction(r).duration)]>>)
  /\ UNCHANGED <<isFlashlightOn, hasPermission, permissionChecked, faults>>

\* FlashlightService.turnOn with the requestPermissions it starts with:
\* granted is what the permission request answers, failed whether
\* Camera.setFlashModeAsync(torch) rejects
TurnOn(r) ==
  /\ Turn(r)
  /\ Instruction(r).op = "turnOn"
  /\ \E granted \in (IF hasPermission THEN {TRUE} ELSE BOOLEAN),
        failed \in 0..Min(1, MaxFaults - faults) :
       /\ hasPermission' = granted
       /\ permissionChecked' = (permissionChecked \/ ~hasPermission)
       /\ IF ~granted
          THEN /\ failed = 0
               /\ Raise(r, <<[k |-> "denied", at |-> wake[r]]>>)
               /\ UNCHANGED <<isFlashlightOn, faults>>
          ELSE IF failed = 1
          THEN /\ Raise(r, <<TorchEvent(r, "torch", FALSE)>>)
               /\ faults' = faults + 1
               /\ UNCHANGED isFlashlightOn
          ELSE /\ Proceed(r, Rest(r), wake[r],
                          <<TorchEvent(r, "torch", TRUE)>>)
               /\ isFlashlightOn' = TRUE
               /\ UNCHANGED faults

\* the flag after an off command that did not reject
AfterOffStale == isFlashlightOn

AfterOff == FALSE

\* FlashlightService.turnOff; the one flash runs in its catch block has
\* its error swallowed
TurnOff(r) ==
  /\ Turn(r)
  /\ Instruction(r).op = "turnOff"
  /\ IF ~hasPermission
     THEN /\ Proceed(r, Rest(r), wake[r], <<>>)
          /\ UNCHANGED <<isFlashlightOn, faults>>
     ELSE \E failed \in 0..Min(1, MaxFaults - faults) :
            /\ faults' = faults + failed
            /\ IF failed = 0
               THEN /\ Proceed(r, Rest(r), wake[r],
                               <<TorchEvent(r, "off", TRUE)>>)
                    /\ isFlashlightOn' = AfterOff
               ELSE /\ IF Instruction(r).swallow
                       THEN Proceed(r, Rest(r), wake[r],
                                    <<TorchEvent(r, "off", FALSE)>>)
                       ELSE Raise(r, <<TorchEvent(r, "off", FALSE)>>)
                    /\ UNCHANGED isFlashlightOn
  /\ UNCHANGED <<hasPermission, permissionChecked>>

\* FlashlightService.emergencyOff: it never rejects
EmergencyOff(r) ==
  /\ Turn(r)
  /\ Instruction(r).op = "emergencyOff"
  /\ IF ~hasPermission
     THEN /\ Proceed(r, Rest(r), wake[r], <<>>)
          /\ UNCHANGED <<isFlashlightOn, faults>>
     ELSE \E failed \in 0..Min(1, MaxFaults - faults) :
            /\ faults' = faults + failed
            /\ Proceed(r, Rest(r), wake[r],
                       <<TorchEvent(r, "off", failed = 0)>>)
            /\ isFlashlightOn' = IF failed = 0 THEN AfterOff
                                 ELSE isFlashlightOn
  /\ UNCHANGED <<hasPermission, permissionChecked>>

\* throw error, at the end of a catch block
Throw(r) ==
  /\ Turn(r)
  /\ Instruction(r).op = "throw"
  /\ Raise(r, <<>>)
  /\ UNCHANGED <<isFlashlightOn, hasPermission, permissionChecked, faults>>

\* ---- QCMVibrationFlashService
\* { ...defaults, ...custom }: custom is a function on some of the keys
Merge(defaults, custom) ==
  [key \in DOMAIN defaults |->
     IF key \in DOMAIN custom THEN custom[key] ELSE defaults[key]]

RECURSIVE Ascending(_)
\* the numbers of a set in ascending order
Ascending(numbers) ==
  IF numbers = {} THEN <<>>
  ELSE LET least == CHOOSE x \in numbers : \A y \in numbers : x <= y
       IN  <<least>> \o Ascending(numbers \ {least})

AnswersOf(answers, questionNumber) ==
  LET IsOf(a) == a.questionNumber = questionNumber
  IN  SelectSeq(answers, IsOf)

\* QCMVibrationFlashService.groupAnswersByQuestion: the groups by ascending
\* question number, the answers of a group sorted (stably) by localeCompare;
\* within a group Compare is that comparator
GroupAnswersUnsorted(answers) ==
  LET keys == Ascending({answers[n].questionNumber : n \in 1..Len(answers)})
  IN  [i \in 1..Len(keys) |->
         [questionNumber |-> keys[i],
          answers |-> AnswersOf(answers, keys[i])]]

GroupAnswersByQuestion(answers) ==
  LET keys == Ascending({answers[n].questionNumber : n \in 1..Len(answers)})
  IN  [i \in 1..Len(keys) |->
         [questionNumber |-> keys[i],
          answers |-> SortAnswers(AnswersOf(answers, keys[i]))]]

\* j < questionGroup.answers.length - 1, for the 1-based j
AnyAnswer(j, questionGroup) == TRUE

NotLastAnswer(j, questionGroup) == j < Len(questionGroup.answers)

AnswerEvent(i, j, questionGroup) ==
  [k |-> "answer", i |-> i, j |-> j,
   questionNumber |-> questionGroup.questionNumber,
   answer |-> questionGroup.answers[j].answer]

QuestionEvent(i, questionGroup) ==
  [k |-> "question", i |-> i,
   questionNumber |-> questionGroup.questionNumber,
   size |-> Len(questionGroup.answers)]

\* the body of the loop over the answers of a group, first revision
AnswerSteps(i, j, questionGroup, config) ==
  <<Iteration(AnswerEvent(i, j, questionGroup))>>
  \o (IF config.enableVibration
      THEN <<[op |-> "vibrateForAnswer",
              answer |-> questionGroup.answers[j].answer]>>
      ELSE <<>>)
  \o (IF NotLastAnswer(j, questionGroup) /\ config.enableFlashlight
      THEN <<DelayFor(config.delayAfterSeparator),
             [op |-> "flash", duration |-> config.flashlightSeparatorDuration],
             DelayFor(config.delayAfterSeparator)>>
      ELSE <<>>)

\* the 20-vibration revision with its 5 s wait moved under enableVibration
AnswerSteps20Coupled(i, j, questionGroup, config) ==
  <<Iteration(AnswerEvent(i, j, questionGroup))>>
  \o (IF config.enableVibration
      THEN <<[op |-> "vibrateForAnswer",
              answer |-> questionGroup.answers[j].answer]>>
           \o (IF NotLastAnswer(j, questionGroup)
               THEN <<DelayFor(5000)>> ELSE <<>>)
      ELSE <<>>)
  \o (IF NotLastAnswer(j, questionGroup) /\ config.enableFlashlight
      THEN <<[op |-> "flash",
              duration |-> config.flashlightSeparatorDuration],
             DelayFor(config.delayAfterSeparator)>>
      ELSE <<>>)

\* the same in the revision with the 20 vibrations
AnswerSteps20(i, j, questionGroup, config) ==
  <<Iteration(AnswerEvent(i, j, questionGroup))>>
  \o (IF config.enableVibration
      THEN <<[op |-> "vibrateForAnswer",
              answer |-> questionGroup.answers[j].answer]>>
      ELSE <<>>)
  \o (IF NotLastAnswer(j, questionGroup)
      THEN <<DelayFor(5000)>>
           \o (IF config.enableFlashlight
               THEN <<[op |-> "flash",
                       duration |-> config.flashlightSeparatorDuration],
                      DelayFor(config.delayAfterSeparator)>>
               ELSE <<>>)
      ELSE <<>>)

RECURSIVE AnswersFrom(_, _, _, _)
AnswersFrom(i, j, questionGroup, config) ==
  IF j > Len(questionGroup.answers) THEN <<>>
  ELSE (IF revision = 1 THEN AnswerSteps(i, j, questionGroup, config)
        ELSE AnswerSteps20(i, j, questionGroup, config))
       \o AnswersFrom(i, j + 1, questionGroup, config)

\* i < groupedAnswers.length - 1, for the 1-based i
AnyGroup(i, groupedAnswers) == TRUE

NotLastGroup(i, groupedAnswers) == i < Len(groupedAnswers)

\* the body of the loop over the groups, in both revisions
GroupSteps(i, groupedAnswers, config) ==
  <<Iteration(QuestionEvent(i, groupedAnswers[i]))>>
  \o (IF revision = 2 /\ config.enableVibration
      THEN <<[op |-> "play20MediumVibrations", startTime |-> -1]>>
      ELSE <<>>)
  \o AnswersFrom(i, 1, groupedAnswers[i], config)
  \o (IF NotLastGroup(i, groupedAnswers)
      THEN <<DelayFor(IF revision = 1 THEN config.delayBetweenAnswers
                      ELSE 1000)>>
      ELSE <<>>)

RECURSIVE GroupsFrom(_, _, _)
GroupsFrom(i, groupedAnswers, config) ==
  IF i > Len(groupedAnswers) THEN <<>>
  ELSE GroupSteps(i, groupedAnswers, config)
       \o GroupsFrom(i + 1, groupedAnswers, config)

\* QCMVibrationFlashService.processQCMWithFlashSeparation(answers, settings)
ProcessQCMWithFlashSeparation(r) ==
  /\ Turn(r)
  /\ Instruction(r).op = "processQCMWithFlashSeparation"
  /\ LET config == Merge(defaultFlashSettings, Instruction(r).settings)
         groupedAnswers == GroupAnswersByQuestion(Instruction(r).answers)
     IN  Proceed(r,
           GroupsFrom(1, groupedAnswers, config) \o <<Catch("process")>>
           \o Rest(r),
           wake[r], <<>>)
  /\ UNCHANGED <<isFlashlightOn, hasPermission, permissionChecked, faults>>

\* the head of a loop body: the iteration is entered
Iterate(r) ==
  /\ Turn(r)
  /\ Instruction(r).op = "iterate"
  /\ Proceed(r, Rest(r), wake[r],
             <<[at |-> wake[r]] @@ Instruction(r).event>>)
  /\ UNCHANGED <<isFlashlightOn, hasPermission, permissionChecked, faults>>

\* QCMVibrationFlashService.play20MediumVibrations, one turn of its loop
\* or, when the ten seconds are over, the pause behind it
Play20MediumVibrations(r) ==
  /\ Turn(r)
  /\ Instruction(r).op = "play20MediumVibrations"
  /\ LET startTime == IF Instruction(r).startTime < 0 THEN wake[r]
                      ELSE Instruction(r).startTime
     IN  IF wake[r] - startTime < 10000
         THEN \E failed \in 0..Min(1, MaxFaults - faults) :
                /\ faults' = faults + failed
                /\ IF failed = 0
                   THEN Proceed(r,
                          <<[Instruction(r) EXCEPT !.startTime = startTime]>>
                          \o Rest(r),
                          wake[r] + 50,
                          <<[k |-> "impact", at |-> wake[r], ok |-> TRUE,
                             span |-> 50]>>)
                   ELSE Raise(r, <<[k |-> "impact", at |-> wake[r],
                                    ok |-> FALSE, span |-> 0]>>)
         ELSE /\ Proceed(r, Rest(r), wake[r] + 500,
                         <<[k |-> "silence", at |-> wake[r], ms |-> 500,
                            span |-> 500, inner |-> TRUE]>>)
              /\ UNCHANGED faults
  /\ UNCHANGED <<isFlashlightOn, hasPermission, permissionChecked>>

\* ---- the calls from outside the services
AnswerInputs ==
  {<<"a">>, <<"b">>, <<"c">>, <<"d">>, <<"e">>, <<"B">>, <<"a", "b">>}

Answer(questionNumber, letter) == QCMAnswer(questionNumber, <<letter>>, <<>>)

AnswerLists ==
  {<<>>,
   <<Answer(1, "a")>>,
   <<Answer(1, "a"), Answer(1, "b")>>,
   <<Answer(2, "b"), Answer(1, "a")>>,
   <<Answer(2, "a"), Answer(1, "b"), Answer(2, "c"), Answer(1, "a"),
     Answer(2, "b")>>}

CustomSettings ==
  {[enableVibration |-> v, enableFlashlight |-> f] : v, f \in BOOLEAN}

Calls ==
  {[op |-> "vibrateForAnswer", answer |-> a] : a \in AnswerInputs}
  \cup {[op |-> "vibrateForQuestionNumber", questionNumber |-> n] :
          n \in 0..MaxQuestion}
  \cup {[op |-> "processQCMWithFlashSeparation", answers |-> l,
         settings |-> s] : l \in AnswerLists, s \in CustomSettings}

\* a caller starts chain r with the call c
Call(r, c) ==
  /\ status[r] = "idle"
  /\ status' = [status EXCEPT ![r] = "running"]
  /\ call' = [call EXCEPT ![r] = c]
  /\ todo' = [todo EXCEPT ![r] = <<c>>]
  /\ wake' = [wake EXCEPT ![r] = now]
  /\ UNCHANGED <<platform, revision, settings, isFlashlightOn, hasPermission,
                 permissionChecked, now, trace, faults, extractVars,
                 serviceVars, appVars>>

\* a step of a playback
PlaybackStep(r) ==
  \/ Delay(r)
  \/ ExecuteVibrationPattern(r)
  \/ VibrateForAnswer(r)
  \/ Flash(r)
  \/ TurnOn(r)
  \/ TurnOff(r)
  \/ EmergencyOff(r)
  \/ Throw(r)
  \/ ProcessQCMWithFlashSeparation(r)
  \/ Iterate(r)
  \/ Play20MediumVibrations(r)

\* a step of the call chain r
Step(r) ==
  \/ PlaybackStep(r)
  \/ VibrateForQuestionNumber(r)

PlayInit ==
  /\ Loaded
  /\ platform \in {"android", "ios"}
  /\ revision \in {1, 2}
  /\ Constructed

PlayNext ==
  \/ \E c \in Calls : Call(1, c)
  \/ \E r \in Run : Step(r)

\* one call at a time into the feedback services
PlaySpec == PlayInit /\ [][PlayNext]_vars

\* ---- the vocabulary of the properties of a playback
Finished(r, fn) == status[r] = "resolved" /\ call[r].op = fn

IsPulse(e) == e.k = "pulse"

Pulses(r) == SelectSeq(trace[r], IsPulse)

IsAnswerLetter(answer) ==
  Len(answer) = 1 /\ \E n \in 1..5 : LowerLetters[n] = LowerOf(answer[1])

\* C11: with vibration enabled, a finished vibrateForAnswer(letter) for a
\* letter of a..e has emitted as many pulses as the letter's position in
\* the alphabet, each requested for 1000 ms and, when it was played, on for
\* 1000 ms, with a wait of 200 ms between two pulses and nothing before the
\* first or after the last pulse.
AnswerPulsesEncodeLetter ==
  \A r \in Run :
    (/\ Finished(r, "vibrateForAnswer")
     /\ IsAnswerLetter(call[r].answer)
     /\ settings.enabled)
    => LET n == CollationRank(LowerOf(call[r].answer[1]))
           t == trace[r]
       IN  /\ Len(t) = 2 * n - 1
           /\ \A i \in 1..Len(t) :
                IF i % 2 = 1
                THEN /\ t[i].k = "pulse"
                     /\ t[i].duration = 1000
                     /\ t[i].how = "vibrate" => t[i].ms = 1000
                ELSE /\ t[i].k = "silence"
                     /\ t[i].ms = 200
                     /\ t[i].at = t[i - 1].at + t[i - 1].span

\* a finished vibrateForAnswer("e"): five pulses and the four waits
FivePulsesPlayed ==
  \E r \in Run :
    /\ Finished(r, "vibrateForAnswer")
    /\ call[r].answer = <<"e">>
    /\ Len(Pulses(r)) = 5
    /\ Len(trace[r]) = 9
    /\ \A i \in 1..5 : Pulses(r)[i].how = "vibrate"

\* C12: a finished vibrateForQuestionNumber(N) has emitted one marker pulse
\* followed by min(N, 10) number pulses and no other pulse, at most 11
\* pulses whatever N is.
QuestionNumberPulsesCapped ==
  \A r \in Run :
    Finished(r, "vibrateForQuestionNumber")
    => LET p == Pulses(r)
           n == call[r].questionNumber
       IN  /\ Len(p) = 1 + Min(n, 10)
           /\ Len(p) <= 11
           /\ p[1].part = "marker"
           /\ \A i \in 2..Len(p) : p[i].part = "number"

\* vibrateForQuestionNumber(11) has finished with ten number pulses
LargeNumberCapped ==
  \E r \in Run :
    /\ Finished(r, "vibrateForQuestionNumber")
    /\ call[r].questionNumber > 10
    /\ Len(Pulses(r)) = 11

IsProcessCall(r) == call[r].op = "processQCMWithFlashSeparation"

Config(r) == Merge(defaultFlashSettings, call[r].settings)

IsTimed(e) == e.k \in {"pulse", "silence", "flash", "impact"}

TimedOf(t) == SelectSeq(t, IsTimed)

Timed(r) == TimedOf(trace[r])

IsAnswerOrFlash(e) == e.k \in {"answer", "flash"}

\* how many answers of the call have the question number q
GroupSize(r, q) ==
  Cardinality({n \in 1..Len(call[r].answers) :
                 call[r].answers[n].questionNumber = q})

QuestionNumbers(r) ==
  {call[r].answers[n].questionNumber : n \in 1..Len(call[r].answers)}

\* the place of the last "question" event before place n of the trace
GroupStart(t, n) ==
  CHOOSE m \in 1..n :
    /\ t[m].k = "question"
    /\ \A x \in (m + 1)..n : t[x].k # "question"

\* C13: in a playback run with vibration enabled each question group starts
\* with the question's number encoding: between the start of a group and its
\* first answer the run emits one marker pulse and then min(N, 10) number
\* pulses, N the group's question number.
GroupStartsWithQuestionNumber ==
  \A r \in Run :
    (IsProcessCall(r) /\ Config(r).enableVibration)
    => \A n \in 1..Len(trace[r]) :
         (trace[r][n].k = "answer" /\ trace[r][n].j = 1)
         => LET m == GroupStart(trace[r], n)
                p == SelectSeq(SubSeq(trace[r], m + 1, n - 1), IsPulse)
            IN  /\ Len(p) = 1 + Min(trace[r][n].questionNumber, 10)
                /\ p[1].part = "marker"
                /\ \A i \in 2..Len(p) : p[i].part = "number"

\* C14: with flash enabled the answers and the flash steps of a run
\* alternate inside a group and only there: an answer that is not the last
\* of its group is followed by one flash and then by the next answer of the
\* group, the last answer of a group by no flash; a finished run over groups
\* of sizes k1..km has made sum(ki - 1) flashes.
OneFlashBetweenAnswers ==
  \A r \in Run :
    (IsProcessCall(r) /\ Config(r).enableFlashlight)
    => LET s == SelectSeq(trace[r], IsAnswerOrFlash)
           flashes == {n \in 1..Len(s) : s[n].k = "flash"}
       IN  /\ \A n \in 1..Len(s) :
                IF s[n].k = "answer"
                THEN IF s[n].j < GroupSize(r, s[n].questionNumber)
                     THEN /\ n < Len(s) => s[n + 1].k = "flash"
                          /\ status[r] = "resolved" => n < Len(s)
                     ELSE n < Len(s) => s[n + 1].k = "answer"
                ELSE /\ n > 1
                     /\ s[n - 1].k = "answer"
                     /\ s[n - 1].j < GroupSize(r, s[n - 1].questionNumber)
                     /\ n < Len(s) =>
                          /\ s[n + 1].k = "answer"
                          /\ s[n + 1].questionNumber = s[n - 1].questionNumber
                          /\ s[n + 1].j = s[n - 1].j + 1
           /\ status[r] = "resolved" =>
                Cardinality(flashes)
                  = Len(call[r].answers) - Cardinality(QuestionNumbers(r))

\* a finished run over a group of two and a group of three answers: three
\* flashes
ThreeFlashesInTwoGroups ==
  \E r \in Run :
    /\ IsProcessCall(r)
    /\ Config(r).enableFlashlight
    /\ status[r] = "resolved"
    /\ Len(call[r].answers) = 5
    /\ Cardinality({n \in 1..Len(trace[r]) : trace[r][n].k = "flash"}) = 3

\* a pulse whose Vibration.vibrate call threw
PulseFailed(e) == e.k = "pulse" /\ e.how \in {"fallback", "failed"}

\* a rejected call of the flash side, or of the haptics of the 20 vibrations
FlashFailed(e) ==
  \/ e.k = "denied"
  \/ e.k = "torch" /\ ~e.ok
  \/ e.k = "impact" /\ ~e.ok

\* nothing is played behind place n of the trace of r, and r does not resolve
NothingPlayedAfter(r, n) ==
  /\ \A m \in (n + 1)..Len(trace[r]) :
       /\ trace[r][m].k \notin {"pulse", "flash", "impact"}
       /\ trace[r][m].k = "torch" => trace[r][m].mode = "off"
  /\ status[r] # "resolved"

IsTorch(e, mode) == e.k = "torch" /\ e.mode = mode

\* every on command of the run is followed by an off command
OffAfterLastOn(r) ==
  \A n \in 1..Len(trace[r]) :
    IsTorch(trace[r][n], "torch")
    => \E m \in (n + 1)..Len(trace[r]) : IsTorch(trace[r][m], "off")

StepsDoNotOverlap ==
  \A r \in Run :
    LET s == Timed(r)
    IN  \A n \in 2..Len(s) : s[n].at >= s[n - 1].at + s[n - 1].span

\* a finished run that played pulses, a flash and silences
PulsesFlashAndSilencesPlayed ==
  \E r \in Run :
    /\ IsProcessCall(r)
    /\ status[r] = "resolved"
    /\ \E a, b, c \in 1..Len(trace[r]) :
         /\ a < b
         /\ b < c
         /\ trace[r][a].k = "pulse"
         /\ trace[r][b].k = "flash"
         /\ trace[r][c].k = "pulse"
         /\ trace[r][c].at >= trace[r][b].at + trace[r][b].span

\* C20: between two consecutive answers of a group a run with vibration
\* waits before it emits the pulses of the second answer: the last thing
\* before the second answer is a silence, whether or not flash is enabled.
SilenceBetweenAnswers ==
  \A r \in Run :
    (IsProcessCall(r) /\ Config(r).enableVibration)
    => \A n \in 1..Len(trace[r]) :
         (trace[r][n].k = "answer" /\ trace[r][n].j > 1)
         => LET before == TimedOf(SubSeq(trace[r], 1, n - 1))
            IN  /\ Len(before) > 0
                /\ before[Len(before)].k = "silence"
                /\ before[Len(before)].ms > 0

(***************************************************************************)
(* Stopping a playback: QCMVibrationFlashService.emergencyStop called      *)
(* between two steps of a run.                                             *)
(***************************************************************************)
Stopped(r) == \E n \in 1..Len(trace[r]) : trace[r][n].k = "stop"

\* QCMVibrationFlashService.emergencyStop with the emergencyOff it awaits,
\* called once while a playback is pending and waits for a timer
EmergencyStop ==
  /\ \E r \in Run : Pending(r) /\ ~Stopped(r)
  /\ \A r \in Run : Pending(r) => wake[r] > now
  /\ \E failed \in 0..(IF hasPermission THEN Min(1, MaxFaults - faults)
                       ELSE 0) :
       /\ faults' = faults + failed
       /\ isFlashlightOn' = IF hasPermission /\ failed = 0 THEN AfterOff
                            ELSE isFlashlightOn
       /\ trace' = [r \in Run |->
                      IF Pending(r)
                      THEN Append(trace[r],
                                  [k |-> "stop", at |-> now,
                                   off |-> hasPermission, ok |-> failed = 0])
                      ELSE trace[r]]
  /\ UNCHANGED <<platform, revision, settings, hasPermission,
                 permissionChecked, now, status, call, todo, wake,
                 extractVars, serviceVars, appVars>>

StopCalls ==
  {[op |-> "processQCMWithFlashSeparation",
    answers |-> <<Answer(1, "a"), Answer(1, "b")>>,
    settings |-> s] : s \in CustomSettings}

StopNext ==
  \/ \E c \in StopCalls : Call(1, c)
  \/ EmergencyStop
  \/ \E r \in Run : PlaybackStep(r)

\* a playback and a caller that may stop it
StopSpec == PlayInit /\ [][StopNext]_vars

\* C19: an emergencyStop called between two steps of a running playback is
\* observed within a step: behind it the run executes at most three further
\* pulse, flash or silence steps, and a run that was told to stop ends with
\* status "cancelled" and the torch off.
StopObservedWithinOneStep ==
  \A r \in Run :
    IsProcessCall(r)
    => \A n \in 1..Len(trace[r]) :
         trace[r][n].k = "stop"
         => /\ Len(TimedOf(SubSeq(trace[r], n + 1, Len(trace[r])))) <= 3
            /\ ~Pending(r) => (status[r] = "cancelled" /\ ~isFlashlightOn)

(***************************************************************************)
(* The callers of the playback in the application: the buttons of          *)
(* HomeScreen (src/unnamed/part_000) run on chain 1, the polling timer of  *)
(* QCMServerService with APIIntegrationService.handleIncomingQCMData       *)
(* (src/unnamed/part_002) on chain 2.  The data of a poll or a manual      *)
(* check is given as the answers extracted from it.                        *)
(***************************************************************************)
\* the settings HomeScreen hands to APIIntegrationService.initialize
\* ---- the interval timers and QCMServerService's polling
TimerIds(live) == {t.id : t \in live}

\* the handle setInterval returns: one no live timer has
FreshTimer(live) ==
  CHOOSE id \in 1..(Cardinality(live) + 1) :
    /\ id \notin TimerIds(live)
    /\ \A lower \in 1..(id - 1) : lower \in TimerIds(live)

\* setInterval(callback, ms) of owner
SetInterval(live, owner, fetch) ==
  live \cup {[id |-> FreshTimer(live), owner |-> owner, fetch |-> fetch]}

\* clearInterval(id)
ClearIntervalLeaky(live, id) == live

ClearInterval(live, id) == {t \in live : t.id # id}

\* the timers QCMServerService.stopPolling leaves alive
AfterStopPolling ==
  IF pollingInterval # NoTimer THEN ClearInterval(timers, pollingInterval)
  ELSE timers

\* QCMServerService.stopPolling
StopPolling ==
  /\ timers' = AfterStopPolling
  /\ pollingInterval' = NoTimer

\* QCMServerService.startPolling (fetch is "fetchQCMResponses") and
\* startSimplePolling (fetch is "fetchLatestQCM"): stopPolling, then
\* setInterval
StartPollingWith(fetch) ==
  /\ timers' = SetInterval(AfterStopPolling, "QCMServerService", fetch)
  /\ pollingInterval' = FreshTimer(AfterStopPolling)

ScreenSettings(haptic) ==
  [enableVibration |-> haptic,
   enableFlashlight |-> FALSE,
   flashlightSeparatorDuration |-> 500,
   delayBetweenAnswers |-> 1000,
   delayAfterSeparator |-> 300]

DetectedAnswers == {<<Answer(1, "a"), Answer(1, "b")>>}

ServerAnswers == {<<>>, <<Answer(1, "b")>>}

\* the screen and the polling timer act in the first LastStart milliseconds
LastStart == 1000

ProcessCall(answers, custom) ==
  [op |-> "processQCMWithFlashSeparation", answers |-> answers,
   settings |-> custom]

\* a caller other than a playback call starts chain r with code
Start(r, c, code) ==
  /\ status[r] = "idle"
  /\ status' = [status EXCEPT ![r] = "running"]
  /\ call' = [call EXCEPT ![r] = c]
  /\ todo' = [todo EXCEPT ![r] = code]
  /\ wake' = [wake EXCEPT ![r] = now]
  /\ UNCHANGED <<platform, revision, settings, isFlashlightOn, hasPermission,
                 permissionChecked, now, trace, faults, extractVars,
                 serviceVars>>

\* HomeScreen.initializeServices: the haptic probe and
\* APIIntegrationService.initialize with the screen's settings
InitializeServices ==
  /\ ~apiInitialized
  /\ \E haptic \in BOOLEAN :
       /\ hapticAvailable' = haptic
       /\ currentSettings' =
            [currentSettings EXCEPT
               !.processingSettings = ScreenSettings(haptic)]
  /\ apiInitialized' = TRUE
  /\ mounted' = TRUE
  /\ listeners' = Append(listeners, "handleIncomingQCMData")
  /\ isInitialized' = TRUE
  /\ eventListeners' = TRUE
  /\ UNCHANGED <<isProcessing, pollingInterval, timers, isPolling, platform,
                 revision, settings, isFlashlightOn, hasPermission,
                 permissionChecked, now, status, call, todo, wake, trace,
                 faults, extractVars, processingInterval,
                 isProcessingActive, backgroundSettings, inFlight,
                 delivered>>

\* HomeScreen.handleStartAutoProcessing ->
\* APIIntegrationService.startAutomaticProcessing ->
\* QCMServerService.startSimplePolling
HandleStartAutoProcessing ==
  /\ apiInitialized
  /\ ~isPolling
  /\ now <= LastStart
  /\ isPolling' = TRUE
  /\ StartPollingWith("fetchLatestQCM")
  /\ UNCHANGED <<hapticAvailable, apiInitialized, isProcessing,
                 currentSettings, platform, revision, settings,
                 isFlashlightOn, hasPermission, permissionChecked, now,
                 status, call, todo, wake, trace, faults, extractVars,
                 serviceVars>>

\* HomeScreen.handleStopAutoProcessing ->
\* APIIntegrationService.stopAutomaticProcessing -> QCMServerService.stopPolling
HandleStopAutoProcessing ==
  /\ apiInitialized
  /\ isPolling
  /\ now <= LastStart
  /\ isPolling' = FALSE
  /\ StopPolling
  /\ UNCHANGED <<hapticAvailable, apiInitialized, isProcessing,
                 currentSettings, platform, revision, settings,
                 isFlashlightOn, hasPermission, permissionChecked, now,
                 status, call, todo, wake, trace, faults, extractVars,
                 serviceVars>>

\* HomeScreen.handleProcessText behind its "Vibrate All" button, which is
\* disabled without haptics, without detected answers and while
\* isProcessing
HandleProcessText(answers) ==
  /\ hapticAvailable
  /\ ~isProcessing
  /\ Len(answers) > 0
  /\ now <= LastStart
  /\ Start(1, [op |-> "handleProcessText", answers |-> answers],
           <<ProcessCall(answers, ScreenSettings(hapticAvailable)),
             Catch("handleProcessText"),
             [op |-> "setIsProcessing", value |-> FALSE]>>)
  /\ isProcessing' = TRUE
  /\ UNCHANGED <<hapticAvailable, apiInitialized, currentSettings,
                 pollingInterval, timers, isPolling>>

\* APIIntegrationService.processQCMData, given the answers it extracts
ProcessQCMData(answers) ==
  IF Len(answers) = 0
  THEN <<[op |-> "onError"], Catch("processQCMData")>>
  ELSE <<ProcessCall(answers, currentSettings.processingSettings),
         [op |-> "onProcessingComplete"], Catch("processQCMData")>>

\* HomeScreen.handleCheckForNewQCM behind its "Check Now" button, which is
\* disabled before the initialisation and while isProcessing
HandleCheckForNewQCM(answers) ==
  /\ apiInitialized
  /\ ~isProcessing
  /\ now <= LastStart
  /\ Start(1, [op |-> "handleCheckForNewQCM", answers |-> answers],
           ProcessQCMData(answers)
           \o <<[op |-> "setIsProcessing", value |-> FALSE]>>)
  /\ isProcessing' = TRUE
  /\ UNCHANGED <<hapticAvailable, apiInitialized, currentSettings,
                 pollingInterval, timers, isPolling>>

\* a tick of the timer of QCMServerService.startSimplePolling that fetched
\* data, and APIIntegrationService.handleIncomingQCMData, its listener
PollTick(answers) ==
  /\ pollingInterval # NoTimer
  /\ currentSettings.autoProcess
  /\ now <= LastStart
  /\ Start(2, [op |-> "handleIncomingQCMData", answers |-> answers],
           ProcessQCMData(answers) \o <<[op |-> "stopAfterProcessing"]>>)
  /\ UNCHANGED appVars

\* the ProcessingResult of processQCMData after a playback that resolved
Succeeded(extractedAnswers) ==
  [success |-> TRUE, processedAnswers |-> extractedAnswers,
   totalAnswers |-> Len(extractedAnswers), error |-> FALSE]

\* the ProcessingResult when no answer was found or the playback rejected
Failed ==
  [success |-> FALSE, processedAnswers |-> <<>>, totalAnswers |-> 0,
   error |-> TRUE]

\* setIsProcessing(value) in a finally block of HomeScreen
SetIsProcessing(r) ==
  /\ Turn(r)
  /\ Instruction(r).op = "setIsProcessing"
  /\ Advance(r, Rest(r), wake[r], <<>>)
  /\ isProcessing' = Instruction(r).value
  /\ UNCHANGED <<hapticAvailable, apiInitialized, currentSettings,
                 pollingInterval, timers, isPolling, isFlashlightOn, hasPermission,
                 permissionChecked, faults>>

\* the onProcessingComplete listener HomeScreen sets, and the result
\* processQCMData returns after it
OnProcessingComplete(r) ==
  /\ Turn(r)
  /\ Instruction(r).op = "onProcessingComplete"
  /\ Advance(r, Rest(r), wake[r],
             <<[k |-> "complete", at |-> wake[r],
                result |-> Succeeded(call[r].answers)]>>)
  /\ isProcessing' = FALSE
  /\ isPolling' = IF Len(call[r].answers) > 0 THEN FALSE ELSE isPolling
  /\ UNCHANGED <<hapticAvailable, apiInitialized, currentSettings,
                 pollingInterval, timers, isFlashlightOn, hasPermission,
                 permissionChecked, faults>>

\* the onError listener HomeScreen sets, and the result processQCMData
\* returns after it
OnError(r) ==
  /\ Turn(r)
  /\ Instruction(r).op = "onError"
  /\ Advance(r, Rest(r), wake[r],
             <<[k |-> "error", at |-> wake[r], result |-> Failed]>>)
  /\ isProcessing' = FALSE
  /\ UNCHANGED <<hapticAvailable, apiInitialized, currentSettings,
                 pollingInterval, timers, isPolling, isFlashlightOn, hasPermission,
                 permissionChecked, faults>>

\* the end of handleIncomingQCMData without the stop
KeepsPollingAfterProcessing(r) ==
  /\ Turn(r)
  /\ Instruction(r).op = "stopAfterProcessing"
  /\ Advance(r, Rest(r), wake[r], <<>>)
  /\ UNCHANGED <<appVars, isFlashlightOn, hasPermission, permissionChecked,
                 faults>>

\* the end of handleIncomingQCMData: polling stops after a success
StopAfterProcessing(r) ==
  /\ Turn(r)
  /\ Instruction(r).op = "stopAfterProcessing"
  /\ Advance(r, Rest(r), wake[r], <<>>)
  /\ LET success == \A n \in 1..Len(trace[r]) : trace[r][n].k # "error"
     IN  IF /\ currentSettings.stopAfterProcessing
            /\ success
            /\ Len(call[r].answers) > 0
         THEN StopPolling
         ELSE UNCHANGED <<pollingInterval, timers>>
  /\ UNCHANGED <<hapticAvailable, apiInitialized, isProcessing,
                 currentSettings, isPolling, isFlashlightOn, hasPermission,
                 permissionChecked, faults>>

\* a step of a chain the application started
AppStep(r) ==
  \/ Delay(r)
  \/ ExecuteVibrationPattern(r)
  \/ VibrateForAnswer(r)
  \/ ProcessQCMWithFlashSeparation(r)
  \/ Iterate(r)
  \/ Play20MediumVibrations(r)
  \/ SetIsProcessing(r)
  \/ OnProcessingComplete(r)
  \/ OnError(r)
  \/ StopAfterProcessing(r)

AppNext ==
  \/ InitializeServices
  \/ HandleStartAutoProcessing
  \/ HandleStopAutoProcessing
  \/ \E answers \in DetectedAnswers : HandleProcessText(answers)
  \/ \E answers \in ServerAnswers : HandleCheckForNewQCM(answers)
  \/ \E answers \in ServerAnswers : PollTick(answers)
  \/ \E r \in Run : AppStep(r)

\* the application before its first render, on a device whose effectors do
\* not fail
AppInit ==
  /\ Loaded
  /\ platform \in {"android", "ios"}
  /\ revision \in {1, 2}
  /\ Built
  /\ faults = MaxFaults

\* the application: the screen, the polling and the playbacks they start
AppSpec == AppInit /\ [][AppNext]_vars

\* a chain inside processQCMWithFlashSeparation that has emitted a step
Playing(r) ==
  /\ Pending(r)
  /\ Len(Timed(r)) > 0
  /\ \E n \in 1..Len(todo[r]) :
       todo[r][n].op = "catch" /\ todo[r][n].of = "process"

\* C18: at most one playback run is in flight at any time: no run emits
\* steps while another run, begun by a button, a polling tick or a manual
\* check, is still executing.
OnePlaybackInFlight ==
  \A r, o \in Run : (Playing(r) /\ Playing(o)) => r = o

(***************************************************************************)
(* The two channels of a playback.                                         *)
(***************************************************************************)
\* the steps processQCMWithFlashSeparation itself issues for the answers
Plan(answers, config) ==
  GroupsFrom(1, GroupAnswersByQuestion(answers), config)

IsSeparationStep(c) == c.op \in {"flash", "delay"}

\* kind and length of the flashes and waits of a plan
PlannedSeparation(answers, config) ==
  LET s == SelectSeq(Plan(answers, config), IsSeparationStep)
  IN  [n \in 1..Len(s) |->
         IF s[n].op = "flash" THEN <<"flash", s[n].duration>>
         ELSE <<"silence", s[n].ms>>]

\* a flash, or a wait that is not part of the emission of pulses
IsSeparation(e) == e.k = "flash" \/ (e.k = "silence" /\ ~e.inner)

\* kind and length of the flashes and waits a run has executed
Separation(r) ==
  LET s == SelectSeq(trace[r], IsSeparation)
  IN  [n \in 1..Len(s) |-> <<s[n].k, s[n].ms>>]

\* C21: a run with enableVibration false emits no pulse, and the flashes
\* and silences of a run are those planned for the same answers and
\* configuration with enableVibration the other way round (the waits inside
\* the emission of pulses belong to the pulses); with enableFlashlight false
\* no flash step runs and the torch is never switched.
VibrationAndFlashIndependent ==
  \A r \in Run :
    IsProcessCall(r)
    => LET config == Config(r)
           other == [config EXCEPT !.enableVibration = ~config.enableVibration]
           seen == Separation(r)
           planned == PlannedSeparation(call[r].answers, other)
       IN  /\ Len(seen) <= Len(planned)
           /\ \A n \in 1..Len(seen) : seen[n] = planned[n]
           /\ status[r] = "resolved" => Len(seen) = Len(planned)
           /\ ~config.enableVibration
              => \A n \in 1..Len(trace[r]) :
                   trace[r][n].k \notin {"pulse", "impact"}
           /\ ~config.enableFlashlight
              => /\ ~isFlashlightOn
                 /\ \A n \in 1..Len(trace[r]) :
                      trace[r][n].k \notin {"flash", "torch"}

\* a run without vibration has finished after a flash between two silences
SilentRunFlashed ==
  \E r \in Run :
    /\ IsProcessCall(r)
    /\ status[r] = "resolved"
    /\ ~Config(r).enableVibration
    /\ Config(r).enableFlashlight
    /\ \E n \in 1..Len(Separation(r)) : Separation(r)[n][1] = "flash"
    /\ \E n \in 1..Len(Separation(r)) : Separation(r)[n][1] = "silence"

(***************************************************************************)
(* Settings changed by a caller while a playback may be running:           *)
(* HapticService.updateSettings / resetToDefault and                       *)
(* APIIntegrationService.updateSettings, around a run started by           *)
(* APIIntegrationService.processQCMData.                                   *)
(***************************************************************************)
MaxUpdates == 1   \* settings changes made while one run is pending

Updates(r) ==
  Cardinality({n \in 1..Len(trace[r]) : trace[r][n].k = "update"})

\* the caller runs while the runs in flight wait for a timer; the change is
\* noted in their history
Updated(by) ==
  /\ now <= LastStart
  /\ \A r \in Run : Pending(r) => (wake[r] > now /\ Updates(r) < MaxUpdates)
  /\ trace' = [r \in Run |->
                 IF Pending(r)
                 THEN Append(trace[r],
                             [k |-> "update", at |-> now, by |-> by,
                              before |-> settings])
                 ELSE trace[r]]
  /\ UNCHANGED <<platform, revision, isFlashlightOn, hasPermission,
                 permissionChecked, now, status, call, todo, wake, faults,
                 extractVars, serviceVars, hapticAvailable, apiInitialized,
                 isProcessing,
                 pollingInterval, timers, isPolling>>

HapticUpdates == {[enabled |-> FALSE], [enabled |-> TRUE]}

\* HapticService.updateSettings(newSettings)
UpdateSettings(newSettings) ==
  /\ settings' = Merge(settings, newSettings)
  /\ Updated("HapticService.updateSettings")
  /\ UNCHANGED currentSettings

\* HapticService.resetToDefault
ResetToDefault ==
  /\ settings' = defaultSettings
  /\ Updated("HapticService.resetToDefault")
  /\ UNCHANGED currentSettings

ProcessingUpdates ==
  {[processingSettings |-> ScreenSettings(v)] : v \in BOOLEAN}

\* APIIntegrationService.updateSettings(newSettings), for newSettings
\* without a pollingInterval
UpdateProcessingSettings(newSettings) ==
  /\ currentSettings' = Merge(currentSettings, newSettings)
  /\ Updated("APIIntegrationService.updateSettings")
  /\ UNCHANGED settings

\* a caller calls APIIntegrationService.processQCMData with data that hold
\* the answers
ProcessData(answers) ==
  /\ Start(1, [op |-> "processQCMData", answers |-> answers,
               settings |-> currentSettings.processingSettings],
           ProcessQCMData(answers))
  /\ UNCHANGED appVars

SettingsStep(r) ==
  \/ Delay(r)
  \/ ExecuteVibrationPattern(r)
  \/ VibrateForAnswer(r)
  \/ ProcessQCMWithFlashSeparation(r)
  \/ Iterate(r)
  \/ Play20MediumVibrations(r)
  \/ Flash(r)
  \/ TurnOn(r)
  \/ TurnOff(r)
  \/ EmergencyOff(r)
  \/ Throw(r)
  \/ OnProcessingComplete(r)
  \/ OnError(r)

SettingsNext ==
  \/ \E newSettings \in HapticUpdates : UpdateSettings(newSettings)
  \/ ResetToDefault
  \/ \E newSettings \in ProcessingUpdates :
       UpdateProcessingSettings(newSettings)
  \/ \E answers \in DetectedAnswers : ProcessData(answers)
  \/ \E r \in Run : SettingsStep(r)

\* the services with a caller that changes their settings; one effector
\* call may fail
SettingsInit ==
  /\ Loaded
  /\ platform \in {"android", "ios"}
  /\ revision \in {1, 2}
  /\ Built
  /\ faults = MaxFaults - 1

SettingsSpec == SettingsInit /\ [][SettingsNext]_vars

\* HapticService.settings when the run r started
SettingsAtStart(r) ==
  IF Updates(r) = 0 THEN settings
  ELSE LET earliest == CHOOSE n \in 1..Len(trace[r]) :
                      /\ trace[r][n].k = "update"
                      /\ \A m \in 1..(n - 1) : trace[r][m].k # "update"
       IN  trace[r][earliest].before

RECURSIVE PulsesFor(_, _)
\* the pulses the answers take under the haptic settings
PulsesFor(haptic, answers) ==
  IF Len(answers) = 0 THEN 0
  ELSE Len(haptic.answerPatterns[ToLowerCase(answers[1].answer)])
       + PulsesFor(haptic, Tail(answers))

\* C22: the configuration of a run is fixed when it starts: a finished run
\* has played the pulses that the settings in force at its start give its
\* answers, whatever was changed while it was executing.
ConfigurationFixedDuringRun ==
  \A r \in Run :
    (call[r].op = "processQCMData" /\ status[r] = "resolved"
     /\ \A n \in 1..Len(trace[r]) : trace[r][n].k # "error")
    => Len(Pulses(r)) =
         IF call[r].settings.enableVibration /\ SettingsAtStart(r).enabled
         THEN PulsesFor(SettingsAtStart(r), call[r].answers)
         ELSE 0

(***************************************************************************)
(* Two runs on the same input, one after the other, on a device whose      *)
(* timers may fire late.                                                   *)
(***************************************************************************)
Lateness == 50   \* how late the first timer of a burst may fire, in ms

\* QCMVibrationFlashService.play20MediumVibrations where setTimeout(50) of
\* the first turn of the loop may fire late
Play20MediumVibrationsLate(r) ==
  /\ Turn(r)
  /\ Instruction(r).op = "play20MediumVibrations"
  /\ LET startTime == IF Instruction(r).startTime < 0 THEN wake[r]
                      ELSE Instruction(r).startTime
     IN  IF wake[r] - startTime < 10000
         THEN \E failed \in 0..Min(1, MaxFaults - faults),
                 late \in (IF Instruction(r).startTime < 0 THEN {0, Lateness}
                           ELSE {0}) :
                /\ faults' = faults + failed
                /\ IF failed = 0
                   THEN Proceed(r,
                          <<[Instruction(r) EXCEPT !.startTime = startTime]>>
                          \o Rest(r),
                          wake[r] + 50 + late,
                          <<[k |-> "impact", at |-> wake[r], ok |-> TRUE,
                             span |-> 50 + late]>>)
                   ELSE Raise(r, <<[k |-> "impact", at |-> wake[r],
                                    ok |-> FALSE, span |-> 0]>>)
         ELSE /\ Proceed(r, Rest(r), wake[r] + 500,
                         <<[k |-> "silence", at |-> wake[r], ms |-> 500,
                            span |-> 500, inner |-> TRUE]>>)
              /\ UNCHANGED faults
  /\ UNCHANGED <<isFlashlightOn, hasPermission, permissionChecked>>

RepeatedCalls ==
  {[op |-> "processQCMWithFlashSeparation", answers |-> l,
    settings |-> [enableVibration |-> v, enableFlashlight |-> FALSE]] :
     l \in {<<Answer(1, "a")>>, <<Answer(2, "b"), Answer(1, "a")>>},
     v \in BOOLEAN}

\* the caller repeats the call of the first run when that run is over
Again ==
  /\ status[1] = "resolved"
  /\ Call(2, call[1])

RepeatedStep(r) ==
  \/ Delay(r)
  \/ ExecuteVibrationPattern(r)
  \/ VibrateForAnswer(r)
  \/ ProcessQCMWithFlashSeparation(r)
  \/ Iterate(r)
  \/ Play20MediumVibrationsLate(r)

RepeatedNext ==
  \/ \E c \in RepeatedCalls : Call(1, c)
  \/ Again
  \/ \E r \in Run : RepeatedStep(r)

\* effectors that do not fail
RepeatedInit ==
  /\ Loaded
  /\ platform \in {"android", "ios"}
  /\ revision \in {1, 2}
  /\ Built
  /\ faults = MaxFaults

RepeatedSpec == RepeatedInit /\ [][RepeatedNext]_vars

\* kind and duration of the pulses, flashes and silences of a run
StepsOf(r) ==
  LET s == Timed(r)
  IN  [n \in 1..Len(s) |->
         IF s[n].k = "pulse" THEN <<"pulse", s[n].duration>>
         ELSE IF s[n].k = "impact" THEN <<"impact", 0>>
         ELSE <<s[n].k, s[n].ms>>]

\* C23: two finished runs on the same answers and the same configuration
\* have executed the same sequence of step kinds and durations.
SameStepsOnSameInput ==
  (status[1] = "resolved" /\ status[2] = "resolved" /\ call[1] = call[2])
  => StepsOf(1) = StepsOf(2)

(***************************************************************************)
(* Playback calls whose settings carry durations that are zero or          *)
(* negative.                                                               *)
(***************************************************************************)
DurationKeys ==
  {"flashlightSeparatorDuration", "delayBetweenAnswers", "delayAfterSeparator"}

\* one duration of the defaults replaced
DurationSettings ==
  {[key \in {changed} |-> ms] : changed \in DurationKeys, ms \in {-1, 0}}

DurationCalls ==
  {[op |-> "processQCMWithFlashSeparation",
    answers |-> <<Answer(1, "a"), Answer(1, "b"), Answer(2, "a")>>,
    settings |-> s] : s \in DurationSettings}

DurationNext ==
  \/ \E c \in DurationCalls : Call(1, c)
  \/ \E r \in Run : PlaybackStep(r)

DurationSpec == PlayInit /\ [][DurationNext]_vars

NegativeDuration(config) == \E key \in DurationKeys : config[key] < 0

\* C24: a call whose configuration holds a negative duration is rejected
\* before any step: the run emits no pulse, flash or silence and does not
\* resolve.
NegativeDurationRejected ==
  \A r \in Run :
    (IsProcessCall(r) /\ NegativeDuration(Config(r)))
    => /\ Len(Timed(r)) = 0
       /\ status[r] # "resolved"

(***************************************************************************)
(* The pause between the question groups of a playback.                    *)
(***************************************************************************)
\* the wait between two groups: delayBetweenAnswers of the configuration in
\* the first revision, 1000 ms in the revision with the 20 vibrations
PauseOf(r) == IF revision = 1 THEN Config(r).delayBetweenAnswers ELSE 1000

\* the places of the trace where the run waited for that long
Pauses(r) ==
  {n \in 1..Len(trace[r]) :
     /\ trace[r][n].k = "silence"
     /\ ~trace[r][n].inner
     /\ trace[r][n].ms = PauseOf(r)}

\* C25: a run over m question groups waits the pause between questions
\* m - 1 times: the first group starts the run with nothing before it,
\* every later group starts right after one pause, a pause is followed by
\* the next group and by nothing else, and a run that is over does not end
\* in a pause.
PauseBetweenGroupsOnly ==
  \A r \in Run :
    IsProcessCall(r)
    => LET t == trace[r]
           m == Cardinality(QuestionNumbers(r))
       IN  /\ \A n \in 1..Len(t) :
                t[n].k = "question"
                => IF t[n].i = 1 THEN n = 1 ELSE (n - 1) \in Pauses(r)
           /\ \A n \in Pauses(r) :
                IF n < Len(t) THEN t[n + 1].k = "question"
                ELSE status[r] = "running"
           /\ Cardinality(Pauses(r)) <= (IF m = 0 THEN 0 ELSE m - 1)
           /\ status[r] = "resolved"
              => Cardinality(Pauses(r)) = (IF m = 0 THEN 0 ELSE m - 1)

\* a finished run over two groups that paused once
PausedOnceBetweenTwoGroups ==
  \E r \in Run :
    /\ IsProcessCall(r)
    /\ status[r] = "resolved"
    /\ Cardinality(QuestionNumbers(r)) = 2
    /\ Cardinality(Pauses(r)) = 1

(***************************************************************************)
(* The order in which a playback plays its answers.                        *)
(***************************************************************************)
IsAnswer(e) == e.k = "answer"

\* the answers a run has begun to play, in the order of playing
Played(r) == SelectSeq(trace[r], IsAnswer)

\* how often the pair of question number and answer occurs in a sequence
\* of records with these two fields
Occurrences(s, questionNumber, answer) ==
  Cardinality({n \in 1..Len(s) :
                 s[n].questionNumber = questionNumber /\ s[n].answer = answer})

\* C26: the groups of a run are played in ascending question number, the
\* answers of a group in ascending letter, and no answer is played more
\* often than the input list holds it; a finished run has played every
\* answer of the input exactly as often as the list holds it.
PlaybackFollowsAnswerOrder ==
  \A r \in Run :
    IsProcessCall(r)
    => LET s == Played(r)
           given == call[r].answers
       IN  /\ \A n \in 2..Len(s) :
                \/ s[n - 1].questionNumber < s[n].questionNumber
                \/ /\ s[n - 1].questionNumber = s[n].questionNumber
                   /\ CollationRank(LowerOf(s[n - 1].answer[1]))
                        <= CollationRank(LowerOf(s[n].answer[1]))
           /\ \A n \in 1..Len(s) :
                Occurrences(s, s[n].questionNumber, s[n].answer)
                  <= Occurrences(given, s[n].questionNumber, s[n].answer)
           /\ status[r] = "resolved"
              => /\ Len(s) = Len(given)
                 /\ \A n \in 1..Len(given) :
                      Occurrences(s, given[n].questionNumber, given[n].answer)
                        = Occurrences(given, given[n].questionNumber,
                                      given[n].answer)

\* a finished run has played a list that was given out of order
UnsortedListPlayed ==
  \E r \in Run :
    /\ IsProcessCall(r)
    /\ status[r] = "resolved"
    /\ Len(call[r].answers) = 5
    /\ call[r].answers[1].questionNumber > call[r].answers[2].questionNumber
    /\ Len(Played(r)) = 5

(***************************************************************************)
(* HapticService.vibrateForQCMAnswers, and the completion of the runs.     *)
(***************************************************************************)
LargeQuestion == 1000   \* a question number far above the cap of 10

\* await this.delay(this.settings[key]) of HapticService
SettingsDelay(r) ==
  /\ Turn(r)
  /\ Instruction(r).op = "settingsDelay"
  /\ Proceed(r, <<GapFor(settings[Instruction(r).key])>> \o Rest(r),
             wake[r], <<>>)
  /\ UNCHANGED <<isFlashlightOn, hasPermission, permissionChecked, faults>>

\* HapticService.vibrateSeparator
VibrateSeparator(r) ==
  /\ Turn(r)
  /\ Instruction(r).op = "vibrateSeparator"
  /\ Proceed(r,
       ExecuteVibrationSequence(settings.separatorPattern, "separator")
       \o Rest(r),
       wake[r], <<>>)
  /\ UNCHANGED <<isFlashlightOn, hasPermission, permissionChecked, faults>>

\* HapticService.vibrateForQCMAnswer(questionNumber, answer)
VibrateForQCMAnswer(r) ==
  /\ Turn(r)
  /\ Instruction(r).op = "vibrateForQCMAnswer"
  /\ Proceed(r,
       <<[op |-> "vibrateForQuestionNumber",
          questionNumber |-> Instruction(r).questionNumber],
         [op |-> "settingsDelay", key |-> "delayBetweenAnswers"],
         [op |-> "vibrateForAnswer", answer |-> Instruction(r).answer]>>
       \o Rest(r),
       wake[r], <<>>)
  /\ UNCHANGED <<isFlashlightOn, hasPermission, permissionChecked, faults>>

\* a loop body that plays the separator before the first answer as well
QCMAnswerStepsSeparatorFirst(i, answers) ==
  <<Iteration([k |-> "answer", i |-> i, j |-> 1,
               questionNumber |-> answers[i].questionNumber,
               answer |-> answers[i].answer])>>
  \o <<GapFor(500), [op |-> "vibrateSeparator"], GapFor(800)>>
  \o <<[op |-> "vibrateForQCMAnswer",
        questionNumber |-> answers[i].questionNumber,
        answer |-> answers[i].answer]>>
  \o (IF i < Len(answers)
      THEN <<[op |-> "settingsDelay", key |-> "delayBetweenQuestions"]>>
      ELSE <<>>)

\* the body of the loop of vibrateForQCMAnswers for the 1-based i
QCMAnswerSteps(i, answers) ==
  <<Iteration([k |-> "answer", i |-> i, j |-> 1,
               questionNumber |-> answers[i].questionNumber,
               answer |-> answers[i].answer])>>
  \o (IF i > 1
      THEN <<GapFor(500), [op |-> "vibrateSeparator"], GapFor(800)>>
      ELSE <<>>)
  \o <<[op |-> "vibrateForQCMAnswer",
        questionNumber |-> answers[i].questionNumber,
        answer |-> answers[i].answer]>>
  \o (IF i < Len(answers)
      THEN <<[op |-> "settingsDelay", key |-> "delayBetweenQuestions"]>>
      ELSE <<>>)

RECURSIVE QCMAnswersFrom(_, _)
QCMAnswersFrom(i, answers) ==
  IF i > Len(answers) THEN <<>>
  ELSE QCMAnswerSteps(i, answers) \o QCMAnswersFrom(i + 1, answers)

\* HapticService.vibrateForQCMAnswers(answers)
VibrateForQCMAnswers(r) ==
  /\ Turn(r)
  /\ Instruction(r).op = "vibrateForQCMAnswers"
  /\ Proceed(r, QCMAnswersFrom(1, Instruction(r).answers) \o Rest(r),
             wake[r], <<>>)
  /\ UNCHANGED <<isFlashlightOn, hasPermission, permissionChecked, faults>>

LiveLists ==
  {<<>>,
   <<Answer(LargeQuestion, "e")>>,
   <<Answer(LargeQuestion, "b"), Answer(2, "a"), Answer(2, "c")>>}

LiveCalls ==
  {[op |-> "vibrateForQCMAnswers", answers |-> l] : l \in LiveLists}
  \cup {[op |-> "processQCMWithFlashSeparation", answers |-> l,
         settings |-> s] : l \in LiveLists, s \in CustomSettings}

\* a step of a chain: a timer or an effector call settles and the chain
\* goes on
LiveStep(r) ==
  \/ PlaybackStep(r)
  \/ VibrateForQuestionNumber(r)
  \/ SettingsDelay(r)
  \/ VibrateSeparator(r)
  \/ VibrateForQCMAnswer(r)
  \/ VibrateForQCMAnswers(r)

LiveNext ==
  \/ \E c \in LiveCalls : Call(1, c)
  \/ \E r \in Run : LiveStep(r)

\* one effector call may fail
LiveInit ==
  /\ Loaded
  /\ platform \in {"android", "ios"}
  /\ revision \in {1, 2}
  /\ Built
  /\ faults = MaxFaults - 1

\* every timer fires and every effector call settles
LiveSpec ==
  LiveInit /\ [][LiveNext]_vars /\ WF_vars(\E r \in Run : LiveStep(r))

\* C27: every playback run that was started is over at some time, resolved
\* or rejected, whatever the question numbers of its answers.
EveryRunCompletes ==
  \A r \in Run : Pending(r) ~> status[r] \in {"resolved", "rejected"}

\* a run of vibrateForQCMAnswers over a question number above the cap is
\* over and has played the capped number encoding
LargeNumberRunCompleted ==
  \E r \in Run :
    /\ Finished(r, "vibrateForQCMAnswers")
    /\ \E n \in 1..Len(call[r].answers) :
         call[r].answers[n].questionNumber = LargeQuestion
    /\ \E n \in 1..Len(trace[r]) :
         trace[r][n].k = "pulse" /\ trace[r][n].part = "number"

\* what run r has logged while it played its i-th answer, the entry of
\* the iteration left out
AnswerBlock(r, i) ==
  LET entered(n) ==
        CHOOSE m \in 1..Len(trace[r]) :
          trace[r][m].k = "answer" /\ trace[r][m].i = n
      last == IF i < Len(Played(r)) THEN entered(i + 1) - 1
              ELSE Len(trace[r])
  IN  SubSeq(trace[r], entered(i) + 1, last)

\* the parts of the pulses of a stretch of a trace, in order
PartsOf(block) ==
  LET pulses == SelectSeq(block, IsPulse)
  IN  [n \in 1..Len(pulses) |-> pulses[n].part]

Times(part, count) == [n \in 1..count |-> part]

IsQuestionDelay(e) ==
  e.k = "silence" /\ e.ms = settings.delayBetweenQuestions

\* C38: a finished run of vibrateForQCMAnswers over n answers has played
\* the answers in list order, each as its question-number encoding (the
\* marker and one pulse per unit up to ten) followed by its letter
\* encoding, behind one separator vibration for every answer but the
\* first, and has waited delayBetweenQuestions at the end of every answer
\* but the last.
AnswersPlayedInListOrder ==
  \A r \in Run :
    Finished(r, "vibrateForQCMAnswers")
    => LET answers == call[r].answers
           n == Len(answers)
       IN  /\ Len(Played(r)) = n
           /\ Len(SelectSeq(trace[r], IsQuestionDelay))
                = IF n = 0 THEN 0 ELSE n - 1
           /\ \A i \in 1..n :
                LET block == AnswerBlock(r, i)
                    number == answers[i].questionNumber
                    units == IF number > 10 THEN 10
                             ELSE IF number < 0 THEN 0 ELSE number
                IN  /\ Played(r)[i].i = i
                    /\ Played(r)[i].questionNumber = number
                    /\ Played(r)[i].answer = answers[i].answer
                    /\ PartsOf(block)
                         = (IF i > 1 THEN <<"separator">> ELSE <<>>)
                           \o <<"marker">>
                           \o Times("number", units)
                           \o Times("answer",
                                 Len(settings.answerPatterns[
                                       ToLowerCase(answers[i].answer)]))
                    /\ i < n => IsQuestionDelay(block[Len(block)])
                    /\ i = n => IsPulse(block[Len(block)])

\* a finished run over three answers that played two separators
ThreeAnswersTwoSeparators ==
  \E r \in Run :
    /\ Finished(r, "vibrateForQCMAnswers")
    /\ Len(call[r].answers) = 3
    /\ Len(Played(r)) = 3
    /\ Len(SelectSeq(PartsOf(trace[r]),
                     LAMBDA part : part = "separator")) = 2

(***************************************************************************)
(* Extracted answers handed to HapticService.vibrateForAnswer.             *)
(***************************************************************************)
FeedTexts == Entries \cup TestTexts

\* the text is extracted before its answers are played
ExtractForPlayback(t) ==
  /\ \A r \in Run : status[r] = "idle"
  /\ ~first.set
  /\ Extract(t)

\* one answer of the returned list is passed to vibrateForAnswer
VibrateExtracted(r) ==
  /\ Returned
  /\ \E n \in 1..Len(ret) :
       Call(r, [op |-> "vibrateForAnswer", answer |-> ret[n].answer])

\* a step of vibrateForAnswer
FeedStep(r) ==
  \/ VibrateForAnswer(r)
  \/ ExecuteVibrationPattern(r)
  \/ Delay(r)

FeedNext ==
  \/ \E t \in FeedTexts : ExtractForPlayback(t)
  \/ VibrateExtracted(1)
  \/ \E r \in Run : FeedStep(r)

\* vibration enabled and available, no effector call fails
FeedInit ==
  /\ Loaded
  /\ platform \in {"android", "ios"}
  /\ revision = 1
  /\ Built
  /\ faults = MaxFaults

FeedSpec == FeedInit /\ [][FeedNext]_vars

\* C28: with vibration enabled, every answer returned by extractQCMAnswers
\* is played by vibrateForAnswer as between 1 and 5 pulses, never as none.
ExtractedAnswerPlayed ==
  \A r \in Run :
    (/\ Returned
     /\ settings.enabled
     /\ Finished(r, "vibrateForAnswer")
     /\ \E n \in 1..Len(ret) : ret[n].answer = call[r].answer)
    => Len(Pulses(r)) \in 1..5

(***************************************************************************)
(* FlashlightService called directly: any sequence of its operations, one  *)
(* call after the other.                                                   *)
(***************************************************************************)
MaxCalls == 3   \* calls made one after the other in one behaviour

\* FlashlightService.requestPermissions: granted is whether the status is
\* 'granted'; a request that throws leaves the state of a refused one
RequestPermissions(r) ==
  /\ Turn(r)
  /\ Instruction(r).op = "requestPermissions"
  /\ \E granted \in BOOLEAN :
       /\ hasPermission' = granted
       /\ Proceed(r, Rest(r), wake[r],
                  <<[k |-> "permission", at |-> wake[r],
                     granted |-> granted]>>)
  /\ permissionChecked' = TRUE
  /\ UNCHANGED <<isFlashlightOn, faults>>

\* FlashlightService.isFlashlightAvailable: it asks for the permission
\* when nobody has asked yet
IsFlashlightAvailable(r) ==
  /\ Turn(r)
  /\ Instruction(r).op = "isFlashlightAvailable"
  /\ \E granted \in (IF permissionChecked THEN {hasPermission} ELSE BOOLEAN) :
       /\ hasPermission' = granted
       /\ Proceed(r, Rest(r), wake[r],
                  <<[k |-> "available", at |-> wake[r],
                     value |-> (granted /\ platform # "web")]>>)
  /\ permissionChecked' = TRUE
  /\ UNCHANGED <<isFlashlightOn, faults>>

\* FlashlightService.toggle; its catch block throws the error on
Toggle(r) ==
  /\ Turn(r)
  /\ Instruction(r).op = "toggle"
  /\ Proceed(r,
       (IF isFlashlightOn THEN <<[op |-> "turnOff", swallow |-> FALSE]>>
        ELSE <<[op |-> "turnOn"]>>) \o Rest(r),
       wake[r], <<>>)
  /\ UNCHANGED <<isFlashlightOn, hasPermission, permissionChecked, faults>>

TorchCalls ==
  {[op |-> "requestPermissions"], [op |-> "isFlashlightAvailable"],
   [op |-> "turnOn"], [op |-> "turnOff", swallow |-> FALSE],
   [op |-> "toggle"], [op |-> "flash", duration |-> 200],
   [op |-> "emergencyOff"]}

IsCall(e) == e.k = "call"

\* the calls made on chain r so far
CallsMade(r) ==
  IF status[r] = "idle" THEN 0 ELSE Len(SelectSeq(trace[r], IsCall)) + 1

Settled(r) == status[r] \in {"resolved", "rejected"}

\* the caller makes the call c when its last call has settled
Recall(r, c) ==
  /\ Settled(r)
  /\ CallsMade(r) < MaxCalls
  /\ status' = [status EXCEPT ![r] = "running"]
  /\ call' = [call EXCEPT ![r] = c]
  /\ todo' = [todo EXCEPT ![r] = <<c>>]
  /\ wake' = [wake EXCEPT ![r] = now]
  /\ trace' = [trace EXCEPT ![r] =
                 Append(@, [k |-> "call", at |-> now, op |-> c.op])]
  /\ UNCHANGED <<platform, revision, settings, isFlashlightOn, hasPermission,
                 permissionChecked, now, faults, extractVars, serviceVars,
                 appVars>>

TorchStep(r) ==
  \/ RequestPermissions(r)
  \/ IsFlashlightAvailable(r)
  \/ Toggle(r)
  \/ Flash(r)
  \/ TurnOn(r)
  \/ TurnOff(r)
  \/ EmergencyOff(r)
  \/ Delay(r)
  \/ Throw(r)

TorchNext ==
  \/ \E c \in TorchCalls : Call(1, c)
  \/ \E c \in TorchCalls : Recall(1, c)
  \/ \E r \in Run : TorchStep(r)

TorchSpec == PlayInit /\ [][TorchNext]_vars

\* the events of the call of chain r that is running or was last made
RECURSIVE SinceCall(_)
SinceCall(events) ==
  IF events = <<>> \/ events[Len(events)].k = "call" THEN <<>>
  ELSE Append(SinceCall(SubSeq(events, 1, Len(events) - 1)),
              events[Len(events)])

Current(r) == SinceCall(trace[r])

IsOffDone(e) == e.k = "torch" /\ e.mode = "off" /\ e.ok

IsOnDone(e) == e.k = "torch" /\ e.mode = "torch" /\ e.ok

FlashSettled(r) == Settled(r) /\ call[r].op = "flash"

LitTorchHasPermission == isFlashlightOn => hasPermission

(***************************************************************************)
(* QCMServerService's polling and APIIntegrationService's listener, with   *)
(* the awaits on the network and on the device probes in flight.           *)
(***************************************************************************)
MaxInFlight == 2   \* awaits in flight at a time
MaxDelivered == 3  \* listener invocations and cycles in one behaviour

Without(seq, i) == SubSeq(seq, 1, i - 1) \o SubSeq(seq, i + 1, Len(seq))

\* nothing of HomeScreen, the feedback services and the clock changes
ScreenIdle ==
  UNCHANGED <<platform, revision, settings, isFlashlightOn, now, status,
              call, todo, wake, trace, faults, extractVars, isProcessing,
              processingInterval, isProcessingActive, backgroundSettings>>

\* a caller calls QCMServerService.startPolling(sessionId) or
\* startSimplePolling(): HomeScreen.handleStartPolling
CallerStartsPolling(fetch) ==
  /\ mounted
  /\ StartPollingWith(fetch)
  /\ isPolling' = TRUE
  /\ ScreenIdle
  /\ UNCHANGED <<hapticAvailable, apiInitialized, currentSettings,
                 hasPermission, permissionChecked, listeners, isInitialized,
                 eventListeners, mounted, inFlight, delivered>>

\* a caller calls QCMServerService.stopPolling(): HomeScreen.handleStopPolling
CallerStopsPolling ==
  /\ mounted
  /\ StopPolling
  /\ isPolling' = FALSE
  /\ ScreenIdle
  /\ UNCHANGED <<hapticAvailable, apiInitialized, currentSettings,
                 hasPermission, permissionChecked, listeners, isInitialized,
                 eventListeners, mounted, inFlight, delivered>>

\* the callback of a live polling timer runs: it starts its fetch
Tick(t) ==
  /\ t \in timers
  /\ t.owner = "QCMServerService"
  /\ Len(inFlight) < MaxInFlight
  /\ inFlight' = Append(inFlight, [op |-> t.fetch])
  /\ ScreenIdle
  /\ UNCHANGED <<hapticAvailable, apiInitialized, currentSettings,
                 pollingInterval, timers, isPolling, hasPermission,
                 permissionChecked, listeners, isInitialized, eventListeners,
                 mounted, delivered>>

\* this.listeners.forEach(listener => listener(data)): what each listener
\* is called with, and what handleIncomingQCMData does with it at once
Notified(data) ==
  [n \in 1..Len(listeners) |->
     [k |-> "listener", listener |-> listeners[n], data |-> data,
      polling |-> pollingInterval # NoTimer,
      onDataReceived |-> eventListeners,
      autoProcess |-> currentSettings.autoProcess]]

\* the fetch of a tick settles: with data the listeners are notified,
\* without (null: 404, an error status, a network error) nothing happens
FetchSettles(i, found) ==
  /\ i \in 1..Len(inFlight)
  /\ inFlight[i].op \in {"fetchQCMResponses", "fetchLatestQCM"}
  /\ inFlight' = Without(inFlight, i)
  /\ IF found
     THEN /\ Len(delivered) + Len(listeners) <= MaxDelivered
          /\ delivered' = delivered \o Notified(Len(delivered) + 1)
     ELSE UNCHANGED delivered
  /\ ScreenIdle
  /\ UNCHANGED <<hapticAvailable, apiInitialized, currentSettings,
                 pollingInterval, timers, isPolling, hasPermission,
                 permissionChecked, listeners, isInitialized, eventListeners,
                 mounted>>

\* APIIntegrationService.cleanup and setApiInitialized(false): the cleanup
\* of HomeScreen's effect
Cleanup ==
  /\ StopPolling
  /\ listeners' = <<>>
  /\ isInitialized' = FALSE
  /\ eventListeners' = FALSE
  /\ apiInitialized' = FALSE

\* initializeServices() of HomeScreen's effect up to its first await
InitializeServicesBegins ==
  /\ Len(inFlight) < MaxInFlight
  /\ inFlight' = Append(inFlight, [op |-> "isHapticAvailable"])

\* HomeScreen is mounted: its effect runs
Mount ==
  /\ ~mounted
  /\ mounted' = TRUE
  /\ InitializeServicesBegins
  /\ ScreenIdle
  /\ UNCHANGED <<hapticAvailable, apiInitialized, currentSettings,
                 pollingInterval, timers, isPolling, hasPermission,
                 permissionChecked, listeners, isInitialized, eventListeners,
                 delivered>>

\* a dependency of the effect changes (handleToggleAutoProcess,
\* handleToggleStopAfterProcessing, the polling interval): the cleanup of
\* the effect runs, then the effect again
EffectRerun ==
  /\ mounted
  /\ Cleanup
  /\ InitializeServicesBegins
  /\ ScreenIdle
  /\ UNCHANGED <<hapticAvailable, currentSettings, isPolling, hasPermission,
                 permissionChecked, mounted, delivered>>

\* HomeScreen is unmounted: the cleanup of the effect runs
Unmount ==
  /\ mounted
  /\ mounted' = FALSE
  /\ Cleanup
  /\ ScreenIdle
  /\ UNCHANGED <<hapticAvailable, currentSettings, isPolling, hasPermission,
                 permissionChecked, inFlight, delivered>>

\* HapticService.isHapticAvailable settles in initializeServices, which
\* calls APIIntegrationService.initialize: a service already initialized
\* returns, and setEventListeners and setApiInitialized(true) follow
HapticProbed(i, haptic) ==
  /\ i \in 1..Len(inFlight)
  /\ inFlight[i].op = "isHapticAvailable"
  /\ hapticAvailable' = haptic
  /\ IF isInitialized
     THEN /\ inFlight' = Without(inFlight, i)
          /\ eventListeners' = TRUE
          /\ apiInitialized' = TRUE
          /\ UNCHANGED currentSettings
     ELSE /\ inFlight' = Append(Without(inFlight, i), [op |-> "initialize"])
          /\ currentSettings' =
               [currentSettings EXCEPT
                  !.processingSettings = ScreenSettings(haptic)]
          /\ UNCHANGED <<eventListeners, apiInitialized>>
  /\ ScreenIdle
  /\ UNCHANGED <<pollingInterval, timers, isPolling, hasPermission,
                 permissionChecked, listeners, isInitialized, mounted,
                 delivered>>

\* the listeners after QCMServerService.addListener
AddListener(callback) == Append(listeners, callback)

\* the capability probes of APIIntegrationService.initialize settle
\* (isFlashlightAvailable asks for the permission when nobody has): the
\* settings are narrowed, the listener is added, isInitialized is set, and
\* initializeServices goes on with setEventListeners and
\* setApiInitialized(true)
InitializeSettles(i, haptic, granted) ==
  /\ i \in 1..Len(inFlight)
  /\ inFlight[i].op = "initialize"
  /\ permissionChecked => granted = hasPermission
  /\ inFlight' = Without(inFlight, i)
  /\ hasPermission' = granted
  /\ permissionChecked' = TRUE
  /\ currentSettings' =
       [currentSettings EXCEPT
          !.processingSettings =
             [@ EXCEPT !.enableVibration = @ /\ haptic,
                       !.enableFlashlight = @ /\ granted]]
  /\ listeners' = AddListener("handleIncomingQCMData")
  /\ isInitialized' = TRUE
  /\ eventListeners' = TRUE
  /\ apiInitialized' = TRUE
  /\ ScreenIdle
  /\ UNCHANGED <<hapticAvailable, pollingInterval, timers, isPolling,
                 mounted, delivered>>

ServerNext ==
  \/ \E fetch \in {"fetchQCMResponses", "fetchLatestQCM"} :
       CallerStartsPolling(fetch)
  \/ CallerStopsPolling
  \/ \E t \in timers : Tick(t)
  \/ \E i \in 1..MaxInFlight, found \in BOOLEAN : FetchSettles(i, found)
  \/ Mount
  \/ EffectRerun
  \/ Unmount
  \/ \E i \in 1..MaxInFlight, haptic \in BOOLEAN : HapticProbed(i, haptic)
  \/ \E i \in 1..MaxInFlight, haptic \in BOOLEAN, granted \in BOOLEAN :
       InitializeSettles(i, haptic, granted)

ServerInit ==
  /\ Loaded
  /\ platform = "android"
  /\ revision = 1
  /\ Constructed

ServerSpec == ServerInit /\ [][ServerNext]_vars

PollingTimers == {t \in timers : t.owner = "QCMServerService"}

\* C31: QCMServerService has at most one polling timer alive at any time,
\* after any sequence of startPolling, startSimplePolling and stopPolling
\* calls, and isPolling (pollingInterval !== null) is true exactly when a
\* timer is alive: the one pollingInterval holds.
OnePollingTimer ==
  /\ Cardinality(PollingTimers) <= 1
  /\ pollingInterval # NoTimer <=> PollingTimers # {}
  /\ \A t \in PollingTimers : t.id = pollingInterval

\* polling was started over a live timer, which was cleared for the new one
PollingRestarted ==
  /\ Cardinality(PollingTimers) = 1
  /\ \E t \in PollingTimers : t.fetch = "fetchQCMResponses"
  /\ \E n \in 1..Len(inFlight) : inFlight[n].op = "fetchLatestQCM"

\* C32: after stopPolling has returned no registered listener is invoked
\* with polled data until polling is started again, even when a fetch of an
\* earlier tick is in flight at the stop.
NoDeliveryAfterStop ==
  \A n \in 1..Len(delivered) :
    delivered[n].k = "listener" => delivered[n].polling

\* C33: at most one data listener of APIIntegrationService is registered
\* with QCMServerService at any time, under any interleaving of initialize
\* and cleanup, so that each polled data item is processed at most once.
OneDataListener ==
  /\ Len(listeners) <= 1
  /\ \A n, m \in 1..Len(delivered) :
       (delivered[n].k = "listener" /\ delivered[m].k = "listener"
        /\ delivered[n].data = delivered[m].data) => n = m

(***************************************************************************)
(* APIIntegrationService.handleIncomingQCMData, the listener of the polled *)
(* data, with the playbacks it starts.                                     *)
(***************************************************************************)
\* if (this.currentSettings.autoProcess) with the test left out
AutoProcessAlways == TRUE

AutoProcess == currentSettings.autoProcess

\* a tick of the polling timer has fetched data that hold the answers, and
\* the listener handleIncomingQCMData runs up to its first await
HandleIncomingQCMData(r, answers) ==
  /\ pollingInterval # NoTimer
  /\ Len(listeners) > 0
  /\ now <= LastStart
  /\ \A o \in Run : Pending(o) => wake[o] > now
  /\ status[r] = "idle"
  /\ call' = [call EXCEPT ![r] =
                [op |-> "handleIncomingQCMData", answers |-> answers,
                 autoProcess |-> currentSettings.autoProcess]]
  /\ trace' = [trace EXCEPT ![r] =
                 IF eventListeners
                 THEN <<[k |-> "received", at |-> now]>> ELSE <<>>]
  /\ wake' = [wake EXCEPT ![r] = now]
  /\ IF AutoProcess
     THEN /\ status' = [status EXCEPT ![r] = "running"]
          /\ todo' = [todo EXCEPT ![r] =
                        ProcessQCMData(answers)
                        \o <<[op |-> "stopAfterProcessing"]>>]
     ELSE /\ status' = [status EXCEPT ![r] = "resolved"]
          /\ todo' = [todo EXCEPT ![r] = <<>>]
  /\ UNCHANGED <<platform, revision, settings, isFlashlightOn, hasPermission,
                 permissionChecked, now, faults, extractVars, appVars,
                 serviceVars>>

IncomingUpdates ==
  {[autoProcess |-> FALSE], [autoProcess |-> TRUE],
   [stopAfterProcessing |-> FALSE], [stopAfterProcessing |-> TRUE],
   [processingSettings |-> defaultFlashSettings]}

IncomingStep(r) ==
  \/ Delay(r)
  \/ ExecuteVibrationPattern(r)
  \/ VibrateForAnswer(r)
  \/ ProcessQCMWithFlashSeparation(r)
  \/ Iterate(r)
  \/ Flash(r)
  \/ TurnOn(r)
  \/ TurnOff(r)
  \/ EmergencyOff(r)
  \/ Throw(r)
  \/ OnProcessingComplete(r)
  \/ OnError(r)
  \/ StopAfterProcessing(r)

IncomingNext ==
  \/ InitializeServices
  \/ HandleStartAutoProcessing
  \/ \E newSettings \in IncomingUpdates :
       UpdateProcessingSettings(newSettings)
  \/ \E r \in Run, answers \in ServerAnswers \cup DetectedAnswers :
       HandleIncomingQCMData(r, answers)
  \/ \E r \in Run : IncomingStep(r)

\* the first revision of the playback; no effector call fails
IncomingInit ==
  /\ Loaded
  /\ platform = "android"
  /\ revision = 1
  /\ Built
  /\ faults = MaxFaults

IncomingSpec == IncomingInit /\ [][IncomingNext]_vars

IsComplete(e) == e.k = "complete"

IsError(e) == e.k = "error"

\* the run of chain r has processed at least one answer with success
ProcessedWithSuccess(r) ==
  \E n \in 1..Len(trace[r]) :
    /\ trace[r][n].k = "complete"
    /\ trace[r][n].result.success
    /\ Len(trace[r][n].result.processedAnswers) > 0

\* chain r is at the end of handleIncomingQCMData, after processQCMData
AfterProcessing(r) ==
  /\ Pending(r)
  /\ call[r].op = "handleIncomingQCMData"
  /\ todo[r][1].op = "stopAfterProcessing"

\* C34: with autoProcess and stopAfterProcessing enabled, once incoming
\* data has been processed with success and at least one answer the polling
\* is stopped (isPolling false, no polling timer left to tick); after a
\* processing that failed or found no answers the polling keeps running.
PollingStopsAfterSuccess ==
  [][\A r \in Run :
       (AfterProcessing(r) /\ status'[r] = "resolved")
       => IF currentSettings.stopAfterProcessing /\ ProcessedWithSuccess(r)
          THEN pollingInterval' = NoTimer /\ timers' = {}
          ELSE pollingInterval' = pollingInterval /\ timers' = timers]_vars

\* the polling was stopped by a run that processed its data with success
StoppedAfterSuccess ==
  \E r \in Run :
    /\ status[r] = "resolved"
    /\ call[r].op = "handleIncomingQCMData"
    /\ ProcessedWithSuccess(r)
    /\ currentSettings.stopAfterProcessing
    /\ pollingInterval = NoTimer
    /\ \A o \in Run : ~Pending(o)

\* C35: with autoProcess disabled incoming polled data is only forwarded to
\* onDataReceived: no playback run is started, nothing is emitted, and the
\* polling is not stopped.
OnlyForwardedWithoutAutoProcess ==
  [][\A r \in Run :
       (/\ status[r] = "idle"
        /\ status'[r] # "idle"
        /\ call'[r].op = "handleIncomingQCMData"
        /\ ~currentSettings.autoProcess)
       => /\ status'[r] = "resolved"
          /\ trace'[r] = <<[k |-> "received", at |-> now]>>
          /\ pollingInterval' = pollingInterval
          /\ timers' = timers]_vars

\* data came in with autoProcess disabled and were forwarded
ForwardedOnly ==
  \E r \in Run :
    /\ status[r] = "resolved"
    /\ call[r].op = "handleIncomingQCMData"
    /\ ~call[r].autoProcess
    /\ trace[r] = <<[k |-> "received", at |-> wake[r]]>>
    /\ pollingInterval # NoTimer

\* the runs of processQCMData
IsProcessingCall(r) ==
  call[r].op \in {"handleIncomingQCMData", "handleCheckForNewQCM",
                  "processQCMData"}

Results(r) ==
  LET done == SelectSeq(trace[r], LAMBDA e : e.k \in {"complete", "error"})
  IN  [n \in 1..Len(done) |-> done[n].result]

\* C36: processQCMData never rejects; without answers or after a playback
\* that failed it returns success false with an error message, no
\* processedAnswers and totalAnswers 0; after a playback that resolved it
\* returns success true with totalAnswers the number of processedAnswers,
\* at least 1.
ProcessQCMDataReturnsResult ==
  \A r \in Run :
    IsProcessingCall(r) =>
      /\ status[r] # "rejected"
      /\ Len(Results(r)) <= 1
      /\ (status[r] = "resolved" /\ call[r].op = "processQCMData")
         => Len(Results(r)) = 1
      /\ \A n \in 1..Len(Results(r)) :
           LET result == Results(r)[n]
               played == \E m \in 1..Len(trace[r]) :
                           trace[r][m].k \in {"question", "answer"}
               failed == \E m \in 1..Len(trace[r]) :
                           trace[r][m].k \in {"denied", "torch"}
                           /\ (trace[r][m].k = "torch" => ~trace[r][m].ok)
           IN  IF Len(call[r].answers) = 0 \/ failed
               THEN /\ ~result.success
                    /\ result.error
                    /\ result.processedAnswers = <<>>
                    /\ result.totalAnswers = 0
               ELSE /\ result.success
                    /\ result.totalAnswers = Len(result.processedAnswers)
                    /\ result.totalAnswers >= 1
                    /\ result.processedAnswers = call[r].answers

\* a playback was refused the torch and processQCMData returned a failure
FailureReturned ==
  \E r \in Run :
    /\ status[r] = "resolved"
    /\ IsProcessingCall(r)
    /\ \E m \in 1..Len(trace[r]) : trace[r][m].k = "denied"
    /\ Results(r) = <<Failed>>

(***************************************************************************)
(* BackgroundTaskService: its interval timer and the cycles it starts.     *)
(***************************************************************************)
\* the services besides BackgroundTaskService keep their state
OthersIdle ==
  UNCHANGED <<extractVars, appVars, platform, revision, settings,
              isFlashlightOn, hasPermission, permissionChecked, faults,
              listeners, isInitialized, eventListeners, mounted>>

NoChainMoves == UNCHANGED <<now, status, call, todo, wake, trace>>

BackgroundSettings(enabled) ==
  [set |-> TRUE, enabled |-> enabled, vibrationEnabled |-> TRUE,
   hapticEnabled |-> TRUE, hapticType |-> "b"]

\* the body of BackgroundTaskService.stopBackgroundProcessing
StopProcessing ==
  /\ timers' = IF processingInterval # NoTimer
               THEN ClearInterval(timers, processingInterval) ELSE timers
  /\ processingInterval' = NoTimer
  /\ isProcessingActive' = FALSE

\* startBackgroundProcessing(serverUrl, settings) up to the await of
\* AsyncStorage.setItem; enableBackgroundProcessing calls it with
\* settings.enabled set
StartBackgroundProcessing(enabled) ==
  /\ Len(inFlight) < MaxInFlight
  /\ Len(delivered) < MaxDelivered
  /\ StopProcessing
  /\ backgroundSettings' = BackgroundSettings(enabled)
  /\ inFlight' = Append(inFlight, [op |-> "startBackgroundProcessing",
                                   enabled |-> enabled])
  /\ delivered' = Append(delivered, [k |-> "start", enabled |-> enabled])
  /\ OthersIdle
  /\ NoChainMoves

\* AsyncStorage.setItem settles in startBackgroundProcessing: the timer is
\* created when the write succeeded and the settings of the call are
\* enabled
StartSettles(i, stored) ==
  /\ i \in 1..Len(inFlight)
  /\ inFlight[i].op = "startBackgroundProcessing"
  /\ inFlight' = Without(inFlight, i)
  /\ IF stored /\ inFlight[i].enabled
     THEN /\ timers' = SetInterval(timers, "BackgroundTaskService",
                                   "executeQCMCycle")
          /\ processingInterval' = FreshTimer(timers)
          /\ isProcessingActive' = TRUE
     ELSE UNCHANGED <<timers, processingInterval, isProcessingActive>>
  /\ UNCHANGED <<backgroundSettings, delivered>>
  /\ UNCHANGED <<extractVars, hapticAvailable, apiInitialized, isProcessing,
                 currentSettings, pollingInterval, isPolling, platform,
                 revision, settings, isFlashlightOn, hasPermission,
                 permissionChecked, faults, listeners, isInitialized,
                 eventListeners, mounted>>
  /\ NoChainMoves

\* stopBackgroundProcessing(), disableBackgroundProcessing() and cleanup()
\* by a caller: all three stop, disable also clears enabled in the current
\* settings
StopBackgroundProcessing(by) ==
  /\ Len(delivered) < MaxDelivered
  /\ StopProcessing
  /\ backgroundSettings' =
       IF by = "disableBackgroundProcessing" /\ backgroundSettings.set
       THEN [backgroundSettings EXCEPT !.enabled = FALSE]
       ELSE backgroundSettings
  /\ delivered' = Append(delivered, [k |-> "stop", by |-> by])
  /\ UNCHANGED <<extractVars, hapticAvailable, apiInitialized, isProcessing,
                 currentSettings, pollingInterval, isPolling, platform,
                 revision, settings, isFlashlightOn, hasPermission,
                 permissionChecked, faults, listeners, isInitialized,
                 eventListeners, mounted, inFlight>>
  /\ NoChainMoves

\* the callback of a live processing timer runs executeQCMCycle on chain
\* r: skipped when the current settings are disabled, else the test
\* vibrations
ExecuteQCMCycle(t, r) ==
  /\ t \in timers
  /\ t.owner = "BackgroundTaskService"
  /\ Len(delivered) < MaxDelivered
  /\ \A o \in Run : Pending(o) => wake[o] > now
  /\ status[r] = "idle"
  /\ delivered' = Append(delivered,
                         [k |-> "cycle", ran |-> backgroundSettings.enabled])
  /\ call' = [call EXCEPT ![r] = [op |-> "executeQCMCycle"]]
  /\ wake' = [wake EXCEPT ![r] = now]
  /\ IF backgroundSettings.enabled
     THEN /\ status' = [status EXCEPT ![r] = "running"]
          /\ todo' = [todo EXCEPT ![r] =
                        (IF backgroundSettings.vibrationEnabled
                         THEN <<[op |-> "vibrateForAnswer",
                                 answer |-> <<"a">>]>>
                         ELSE <<>>)
                        \o (IF backgroundSettings.hapticEnabled
                            THEN <<[op |-> "vibrateForAnswer",
                                    answer |->
                                      <<backgroundSettings.hapticType>>]>>
                            ELSE <<>>)
                        \o <<Catch("executeQCMCycle")>>]
     ELSE /\ status' = [status EXCEPT ![r] = "resolved"]
          /\ todo' = [todo EXCEPT ![r] = <<>>]
  /\ UNCHANGED <<extractVars, appVars, platform, revision, settings,
                 isFlashlightOn, hasPermission, permissionChecked, faults,
                 listeners, isInitialized, eventListeners, mounted,
                 processingInterval, isProcessingActive, backgroundSettings,
                 inFlight, now, trace>>

BackgroundStep(r) ==
  \/ VibrateForAnswer(r)
  \/ ExecuteVibrationPattern(r)
  \/ Delay(r)

BackgroundNext ==
  \/ \E enabled \in BOOLEAN : StartBackgroundProcessing(enabled)
  \/ \E i \in 1..MaxInFlight, stored \in BOOLEAN : StartSettles(i, stored)
  \/ \E by \in {"stopBackgroundProcessing", "disableBackgroundProcessing",
                 "cleanup"} : StopBackgroundProcessing(by)
  \/ \E t \in timers, r \in Run : ExecuteQCMCycle(t, r)
  \/ \E r \in Run : BackgroundStep(r)

BackgroundSpec == ServerInit /\ [][BackgroundNext]_vars

ProcessingTimers == {t \in timers : t.owner = "BackgroundTaskService"}

\* C37: BackgroundTaskService has at most one processing timer alive at any
\* time and isProcessing() is true exactly when that timer exists, under
\* any interleaving of start, enable, stop, disable and cleanup; after a
\* stop no QCM cycle runs before the next start.
OneProcessingTimer ==
  /\ Cardinality(ProcessingTimers) <= 1
  /\ isProcessingActive <=> ProcessingTimers # {}
  /\ \A n, m \in 1..Len(delivered) :
       (n < m /\ delivered[n].k = "stop" /\ delivered[m].k = "cycle"
        /\ delivered[m].ran)
       => \E j \in (n + 1)..(m - 1) : delivered[j].k = "start"

(***************************************************************************)
(* HomeScreen.handleTestAllVibrations and the loop it awaits.              *)
(***************************************************************************)
MaxLoops == 2   \* loops of testAllAnswerVibrations followed in one run

\* one pass of the while (true) loop of HapticService.testAllAnswerVibrations
\* and the loop again behind it
TestAllLoop(loopCount) ==
  LET letters == <<"a", "b", "c", "d", "e">>
      medium(j) ==
        <<[op |-> "impactAsync"]>>
        \o (IF j < 8 THEN <<GapFor(150)>> ELSE <<>>)
      letter(i) ==
        <<[op |-> "vibrateForAnswer", answer |-> <<letters[i]>>]>>
        \o (IF i < Len(letters) THEN <<GapFor(2500)>> ELSE <<>>)
  IN  <<Iteration([k |-> "loop", loopCount |-> loopCount])>>
      \o medium(1) \o medium(2) \o medium(3) \o medium(4)
      \o medium(5) \o medium(6) \o medium(7) \o medium(8)
      \o <<GapFor(1000)>>
      \o letter(1) \o letter(2) \o letter(3) \o letter(4) \o letter(5)
      \o <<GapFor(3000)>>
      \o <<[op |-> "testAllAnswerVibrations", loopCount |-> loopCount + 1]>>

\* HapticService.testAllAnswerVibrations at the head of its loop: the
\* condition of the loop is true
TestAllAnswerVibrations(r) ==
  /\ Turn(r)
  /\ Instruction(r).op = "testAllAnswerVibrations"
  /\ Instruction(r).loopCount <= MaxLoops
  /\ Proceed(r, TestAllLoop(Instruction(r).loopCount) \o Rest(r), wake[r],
             <<>>)
  /\ UNCHANGED <<isFlashlightOn, hasPermission, permissionChecked, faults>>

\* await Haptics.impactAsync(Medium) in testAllAnswerVibrations: a call
\* that rejects is thrown to the caller
ImpactAsync(r) ==
  /\ Turn(r)
  /\ Instruction(r).op = "impactAsync"
  /\ \E failed \in 0..Min(1, MaxFaults - faults) :
       /\ faults' = faults + failed
       /\ IF failed = 0
          THEN Proceed(r, Rest(r), wake[r],
                       <<[k |-> "impact", at |-> wake[r], ok |-> TRUE,
                          span |-> 0]>>)
          ELSE Raise(r, <<[k |-> "impact", at |-> wake[r], ok |-> FALSE,
                           span |-> 0]>>)
  /\ UNCHANGED <<isFlashlightOn, hasPermission, permissionChecked>>

\* HomeScreen.handleTestAllVibrations behind its two buttons, both disabled
\* without haptics and one of them while isProcessing
HandleTestAllVibrations(r) ==
  /\ hapticAvailable
  /\ now <= LastStart
  /\ \A o \in Run : Pending(o) => wake[o] > now
  /\ Start(r, [op |-> "handleTestAllVibrations"],
           <<[op |-> "testAllAnswerVibrations", loopCount |-> 1],
             Catch("handleTestAllVibrations"),
             [op |-> "setIsProcessing", value |-> FALSE]>>)
  /\ isProcessing' = TRUE
  /\ UNCHANGED <<hapticAvailable, apiInitialized, currentSettings,
                 pollingInterval, timers, isPolling>>

TestAllStep(r) ==
  \/ TestAllAnswerVibrations(r)
  \/ ImpactAsync(r)
  \/ Iterate(r)
  \/ Delay(r)
  \/ VibrateForAnswer(r)
  \/ ExecuteVibrationPattern(r)
  \/ SetIsProcessing(r)

TestAllNext ==
  \/ InitializeServices
  \/ \E r \in Run : HandleTestAllVibrations(r)
  \/ \E r \in Run : TestAllStep(r)

\* the application before its first render; one effector call may fail
TestAllInit ==
  /\ Loaded
  /\ platform = "android"
  /\ revision = 1
  /\ Built
  /\ faults = MaxFaults - 1

TestAllSpec == TestAllInit /\ [][TestAllNext]_vars

\* C39: every UI action that sets isProcessing also sets it back; in
\* particular handleTestAllVibrations reaches its finally block when
\* testAllAnswerVibrations has played the five letters: its run does not
\* begin the letters once more with the finally block still ahead.
TestAllVibrationsReturns ==
  \A r \in Run :
    call[r].op = "handleTestAllVibrations"
    => \A n \in 1..Len(trace[r]) :
         trace[r][n].k = "loop" => trace[r][n].loopCount = 1

====
